---------------------------- MODULE Spec2Model ----------------------------
(***************************************************************************)
(* Drawflow (src/src/drawflow.js): the graph store, its module manager,    *)
(* the rendered view (precanvas) the store operations read back, and the   *)
(* connection gesture.                                                     *)
(*                                                                         *)
(* Encoding of JavaScript values.                                          *)
(*  - A node id passed by a caller is a typed value [t, v]: Str(n) is the  *)
(*    string "n", Num(n) the number n.  Object keys are strings, written   *)
(*    as the natural n they spell; data[id] coerces its key, so both       *)
(*    Str(n) and Num(n) reach key n, while key === id holds for Str only.  *)
(*  - A port label "input_k" / "output_k" is the natural k; slice and      *)
(*    parseInt recover k from the label.                                   *)
(*  - An object with string keys is an ordered map (insertion order): a    *)
(*    sequence of [k, v].  The node table of a module has integer-like     *)
(*    keys, which JavaScript enumerates in ascending order: a function     *)
(*    over a set of naturals.                                              *)
(*  - A handler that throws stops where it throws: the state keeps what    *)
(*    was written before, and thrown is TRUE.                              *)
(*  - updateConnectionNodes only writes path geometry; it is modelled by   *)
(*    the element lookups that can fail.  The zoom ratios it reads         *)
(*    (lines 1723-1729) are taken as computed as in updateConnection       *)
(*    (lines 1547-1550).                                                   *)
(*  - A number that is computed with (the zoom) is an IEEE 754 double,     *)
(*    held exactly: see the section on numbers.                            *)
(*  - The canvas is never panned here: canvas_x and canvas_y stay 0, and   *)
(*    zoom_refresh, which rescales them, leaves them 0.                    *)
(***************************************************************************)
EXTENDS Integers, Sequences, FiniteSets, TLC

\* ------------------------------------------------------------------ bounds
MaxNodeId == 2
\* ports and connections the editor holds together
MaxSize == 4
\* the canvas is panned at most this far from its origin, along each axis
MaxPan == 1
\* the listeners the host has registered, over all events
MaxListeners == 3
\* the nodes of an editor whose listeners call back into it
MaxReentrantNodes == 3
\* the connections of an editor whose connections are drawn and selected
MaxConnect == 2

\* the ends of a path lie up to MaxCurve pixels left or right of the origin
MaxCurve == 2

\* the connections are given up to MaxPoints reroute points together
MaxPoints == 3
\* a box of a flow with reroute points is given up to MaxPorts ports a side
MaxPorts == 2

ModuleNames == {"Home", "Other"}

\* ------------------------------------------------------- JavaScript values
Undefined == "undefined"

Str(n) == [t |-> "str", v |-> n]
Num(n) == [t |-> "num", v |-> n]

\* key === id, for an object key (a string) and a caller's value
StrictEq(key, id) == id.t = "str" /\ id.v = key

\* string == id: a number is compared with the string's numeric value
LooseEq(str, id) == id.v = str

NoRet == [t |-> "undefined", v |-> 0]
BoolRet(b) == [t |-> "bool", v |-> IF b THEN 1 ELSE 0]
NumRet(n) == [t |-> "num", v |-> n]

\* ------------------------------------------------------------------ numbers
\* The doubles the zoom takes lie in [0, 4) and are multiples of 2^-55: a
\* double x is the integer x * 2^55, held in two limbs as hi * 2^28 + lo.
Dbl(hi, lo) == [hi |-> hi, lo |-> lo]

\* a < b
DblLess(a, b) == a.hi < b.hi \/ (a.hi = b.hi /\ a.lo < b.lo)

\* the spacing of the doubles around x (53 significant bits), in units of
\* 2^-55: 16 in [2, 4), 8 in [1, 2), 4 in [1/2, 1), 2 in [1/4, 1/2); below
\* 1/4 every multiple of 2^-55 is a double
Ulp(x) ==
    IF x.hi >= 2^28 THEN 16
    ELSE IF x.hi >= 2^27 THEN 8
    ELSE IF x.hi >= 2^26 THEN 4
    ELSE IF x.hi >= 2^25 THEN 2
    ELSE 1

\* the double nearest to the exact value x, ties to the even significand
DblRound(x) ==
    LET u == Ulp(x)
        r == x.lo % u
        down == x.lo - r
        up == r * 2 > u \/ (r * 2 = u /\ (down \div u) % 2 = 1)
        lo == IF up THEN down + u ELSE down
    IN  IF lo = 2^28 THEN Dbl(x.hi + 1, 0) ELSE Dbl(x.hi, lo)

\* a + b
DblAdd(a, b) ==
    DblRound(Dbl(a.hi + b.hi + ((a.lo + b.lo) \div 2^28), (a.lo + b.lo) % 2^28))

\* a - b, for b <= a
DblSub(a, b) ==
    DblRound(IF a.lo < b.lo THEN Dbl(a.hi - b.hi - 1, a.lo - b.lo + 2^28)
             ELSE Dbl(a.hi - b.hi, a.lo - b.lo))

\* the literals 1, 1.6, 0.5 and 0.1
One == Dbl(134217728, 0)
DefaultZoomMax == Dbl(214748364, 214748368)
DefaultZoomMin == Dbl(67108864, 0)
DefaultZoomValue == Dbl(13421772, 214748365)

\* The pixels of a box: whole - moved / zoom, with whole and moved integers.
\* A quotient that is an integer is taken into whole; the others, of a zoom
\* that is not 1, are no integers.
Px(whole, moved, z) ==
    IF moved = 0 \/ z = One THEN [whole |-> whole - moved, moved |-> 0, zoom |-> One]
    ELSE [whole |-> whole, moved |-> moved, zoom |-> z]

\* element.offsetLeft: style.left as the layout has it, the nearest integer;
\* the low limb of the zoom is below the 27th binary place of the quotient
offsetLeft(left) ==
    left.whole - ((2 * left.moved * 2^27 + left.zoom.hi) \div (2 * left.zoom.hi))

\* ------------------------------------------------------------ ordered maps
OMHas(m, k) == \E i \in 1..Len(m) : m[i].k = k
OMIdx(m, k) == CHOOSE i \in 1..Len(m) : m[i].k = k
OMGet(m, k) == m[OMIdx(m, k)].v
OMSet(m, k, v) ==
    IF OMHas(m, k) THEN [m EXCEPT ![OMIdx(m, k)].v = v]
    ELSE Append(m, [k |-> k, v |-> v])
OMDel(m, k) == SelectSeq(m, LAMBDA e : e.k # k)
OMKeys(m) == {m[i].k : i \in 1..Len(m)}

\* data[k] = v and delete data[k] on a node table
Put(d, k, v) == [x \in (DOMAIN d) \cup {k} |-> IF x = k THEN v ELSE d[x]]
Del(d, k) == [x \in (DOMAIN d) \ {k} |-> d[x]]

SetMax(S) == CHOOSE x \in S : \A y \in S : y <= x

\* array.splice(index, 1), for index >= -1 counted from 0: -1 removes the last
Splice1(a, index) ==
    LET i == IF index = -1 THEN Len(a) ELSE index + 1
    IN  IF i < 1 \/ i > Len(a) THEN a
        ELSE [j \in 1..(Len(a) - 1) |-> IF j < i THEN a[j] ELSE a[j + 1]]

\* array.findIndex(item => item is the entry e), counted from 0, -1 when
\* nothing matches
FindIndex(a, e) ==
    LET hits == {i \in 1..Len(a) : a[i] = e}
    IN  IF hits = {} THEN -1 ELSE (CHOOSE i \in hits : \A j \in hits : i <= j) - 1

\* connections.findIndex(item => item.node === e.node && item.output ===
\* e.output), or item.input === e.input: the fields of e are compared and
\* the points of the item are not looked at
FindEntry(a, e) ==
    LET hits == {i \in 1..Len(a) : \A f \in DOMAIN e : a[i][f] = e[f]}
    IN  IF hits = {} THEN -1 ELSE (CHOOSE i \in hits : \A j \in hits : i <= j) - 1

\* -------------------------------------------------------------------- state
VARIABLES
    drawflow,             \* this.drawflow.drawflow: module name -> {data}
    module,               \* this.module
    nodeId,               \* this.nodeId
    nodes,                \* precanvas: the node boxes, in document order
    conns,                \* precanvas: the svg.connection elements, in order
    connection,           \* this.connection
    ele_selected,         \* this.ele_selected
    connection_selected,  \* this.connection_selected
    events,               \* the events the last handler dispatched
    thrown,               \* the last handler threw
    ret,                  \* what the last handler returned
    op,                   \* the last handler called
    returned,             \* history: the ids addNode has returned
    zoom,                 \* this.zoom
    zoom_last_value,      \* this.zoom_last_value
    zoom_max,             \* this.zoom_max
    zoom_min,             \* this.zoom_min
    zoom_value,           \* this.zoom_value
    editor_mode,          \* this.editor_mode
    editor_selected,      \* this.editor_selected
    drag,                 \* this.drag
    drag_point,           \* this.drag_point
    deletebox,            \* precanvas: the div.drawflow-delete, if there is one
    curve,                \* the arguments and the result of the last createCurvature
    reroute,              \* this.reroute
    reroute_fix_curvature, \* this.reroute_fix_curvature
    node_selected,        \* this.node_selected
    canvas_x,             \* this.canvas_x
    canvas_y,             \* this.canvas_y
    pos_x,                \* this.pos_x
    pos_y,                \* this.pos_y
    pos_x_start,          \* this.pos_x_start
    pos_y_start,          \* this.pos_y_start
    place,                \* of every node id: style.left of the box, pos_x in the store
    listeners,            \* this.events: the listeners of every event name
    invoked,              \* the listeners the last handler called, in order
    console               \* the console.error calls of the last handler

vars == <<drawflow, module, nodeId, nodes, conns, connection, ele_selected,
          connection_selected, events, thrown, ret, op, returned,
          zoom, zoom_last_value, zoom_max, zoom_min, zoom_value,
          editor_mode, editor_selected, drag, node_selected,
          drag_point, deletebox, curve, reroute, reroute_fix_curvature,
          canvas_x, canvas_y, pos_x, pos_y, pos_x_start, pos_y_start, place,
          listeners, invoked, console>>

State ==
    [drawflow |-> drawflow, module |-> module, nodeId |-> nodeId,
     nodes |-> nodes, conns |-> conns, connection |-> connection,
     ele_selected |-> ele_selected, connection_selected |-> connection_selected,
     events |-> <<>>, thrown |-> FALSE, ret |-> NoRet, returned |-> returned,
     zoom |-> zoom, zoom_last_value |-> zoom_last_value, zoom_max |-> zoom_max,
     zoom_min |-> zoom_min, zoom_value |-> zoom_value,
     editor_mode |-> editor_mode, editor_selected |-> editor_selected,
     drag |-> drag, node_selected |-> node_selected,
     drag_point |-> drag_point, deletebox |-> deletebox, curve |-> curve,
     reroute |-> reroute,
     reroute_fix_curvature |-> reroute_fix_curvature,
     canvas_x |-> canvas_x, canvas_y |-> canvas_y, pos_x |-> pos_x, pos_y |-> pos_y,
     pos_x_start |-> pos_x_start, pos_y_start |-> pos_y_start, place |-> place,
     listeners |-> listeners, invoked |-> <<>>, console |-> 0,
     \* a flag of the host: its nodeCreated listener is running
     busy |-> FALSE]

Become(s, name) ==
    /\ drawflow' = s.drawflow
    /\ module' = s.module
    /\ nodeId' = s.nodeId
    /\ nodes' = s.nodes
    /\ conns' = s.conns
    /\ connection' = s.connection
    /\ ele_selected' = s.ele_selected
    /\ connection_selected' = s.connection_selected
    /\ events' = s.events
    /\ thrown' = s.thrown
    /\ ret' = IF s.thrown THEN NoRet ELSE s.ret
    /\ returned' = s.returned
    /\ op' = name
    /\ zoom' = s.zoom
    /\ zoom_last_value' = s.zoom_last_value
    /\ zoom_max' = s.zoom_max
    /\ zoom_min' = s.zoom_min
    /\ zoom_value' = s.zoom_value
    /\ editor_mode' = s.editor_mode
    /\ editor_selected' = s.editor_selected
    /\ drag' = s.drag
    /\ drag_point' = s.drag_point
    /\ deletebox' = s.deletebox
    /\ curve' = s.curve
    /\ reroute' = s.reroute
    /\ reroute_fix_curvature' = s.reroute_fix_curvature
    /\ node_selected' = s.node_selected
    /\ canvas_x' = s.canvas_x
    /\ canvas_y' = s.canvas_y
    /\ pos_x' = s.pos_x
    /\ pos_y' = s.pos_y
    /\ pos_x_start' = s.pos_x_start
    /\ pos_y_start' = s.pos_y_start
    /\ place' = s.place
    /\ listeners' = s.listeners
    /\ invoked' = s.invoked
    /\ console' = s.console

Null == [kind |-> "null"]

EmptyModule == [data |-> <<>>]

Throw(s) == [s EXCEPT !.thrown = TRUE]

\* ---------------------------------------------------------------- events
\* A callback is a function of the host, or a value that is no function.
Fn(k) == [t |-> "function", v |-> k]

\* an on that looks at neither argument
onUnchecked(s, event, callback) ==
    [s EXCEPT !.listeners =
        OMSet(@, event.v,
              Append(IF OMHas(@, event.v) THEN OMGet(@, event.v) ELSE <<>>, callback.v))]

\* on(event, callback)
on(s, event, callback) ==
    IF callback.t # "function" \/ event.t # "str"
    THEN [s EXCEPT !.console = @ + 1, !.ret = BoolRet(FALSE)]
    ELSE [s EXCEPT !.listeners =
             OMSet(@, event.v,
                   Append(IF OMHas(@, event.v) THEN OMGet(@, event.v) ELSE <<>>,
                          callback.v))]

\* removeListener(event, callback)
removeListener(s, event, callback) ==
    IF ~OMHas(s.listeners, event.v) THEN [s EXCEPT !.ret = BoolRet(FALSE)]
    ELSE LET list == OMGet(s.listeners, event.v)
             listenerIndex == FindIndex(list, callback.v)
         IN  IF listenerIndex = -1 THEN s
             ELSE [s EXCEPT !.listeners = OMSet(@, event.v, Splice1(list, listenerIndex))]

RECURSIVE addNode(_, _, _)
RECURSIVE removeSingleConnection(_, _, _, _, _)

\* listener(details), for the functions the host registers:
\*   1, 2  look at the details and call nothing
\*   3     removeListener(event, itself)
\*   4     addNode, unless it is running already
\*   5     removeSingleConnection('1', '2', 'output_1', 'input_1')
\*   6     reads editor.module and the ids of the boxes on the canvas
\* What the call inside the listener returned is kept with the invocation.
listener(s, k, event, details) ==
    LET Called(s1) ==
            [s1 EXCEPT !.ret = s.ret,
                       !.invoked = Append(@, [event |-> event, listener |-> k,
                                              ret |-> s1.ret])]
    IN  Called(CASE k = 3 -> removeListener([s EXCEPT !.ret = NoRet], Str(event), Fn(3))
                 [] k = 4 /\ ~s.busy ->
                        [addNode([s EXCEPT !.ret = NoRet, !.busy = TRUE], 0, 0)
                            EXCEPT !.busy = FALSE]
                 [] k = 5 -> removeSingleConnection([s EXCEPT !.ret = NoRet],
                                                    Str(1), Str(2), 1, 1)
                 [] k = 6 ->
                        [s EXCEPT !.ret =
                            [t |-> "seen",
                             v |-> [module |-> s.module,
                                    boxes |-> {s.nodes[b].id : b \in 1..Len(s.nodes)}]]]
                 [] OTHER -> [s EXCEPT !.ret = NoRet])

\* listeners.forEach: the length is read once, before the first call; an
\* index the array no longer has is passed over
RECURSIVE forEachListener(_, _, _, _, _)
forEachListener(s, event, details, k, len) ==
    IF k > len \/ s.thrown \/ k > Len(OMGet(s.listeners, event)) THEN s
    ELSE forEachListener(listener(s, OMGet(s.listeners, event)[k], event, details),
                         event, details, k + 1, len)

dispatch(s, event, details) ==
    IF ~OMHas(s.listeners, event)
    THEN [s EXCEPT !.events = Append(@, [name |-> event, args |-> details])]
    ELSE forEachListener([s EXCEPT !.events = Append(@, [name |-> event, args |-> details])],
                         event, details, 1, Len(OMGet(s.listeners, event)))

HasModule(s, m) == OMHas(s.drawflow, m)

\* the names every JavaScript object inherits from Object.prototype: a lookup
\* obj[name] finds a function under them, whatever obj holds itself
ObjectPrototype == {"constructor"}

\* this.drawflow.drawflow[name] is truthy
ModuleLookup(s, name) == HasModule(s, name) \/ name \in ObjectPrototype

Data(s, m) == OMGet(s.drawflow, m).data
SetData(s, m, d) == [s EXCEPT !.drawflow = OMSet(@, m, [data |-> d])]

\* the connections array of one port; side is "inputs" or "outputs"
Ports(node, side) == IF side = "inputs" THEN node.inputs ELSE node.outputs
Connections(s, m, n, side, label) == OMGet(Ports(Data(s, m)[n], side), label).connections
SetConnections(s, m, n, side, label, a) ==
    LET d == Data(s, m)
        port == [connections |-> a]
    IN  SetData(s, m,
            [d EXCEPT ![n] =
                IF side = "inputs" THEN [@ EXCEPT !.inputs = OMSet(@, label, port)]
                ELSE [@ EXCEPT !.outputs = OMSet(@, label, port)]])

\* data[n].<side>[label].connections can be read without a TypeError
HasPort(s, m, n, side, label) ==
    /\ HasModule(s, m)
    /\ n \in DOMAIN Data(s, m)
    /\ OMHas(Ports(Data(s, m)[n], side), label)

\* ------------------------------------------------------------ the view
\* container.querySelector('#node-n'): the first box with that id, 0 if none
BoxIdx(s, n) ==
    LET hits == {i \in 1..Len(s.nodes) : s.nodes[i].id = n}
    IN  IF hits = {} THEN 0 ELSE CHOOSE i \in hits : \A j \in hits : i <= j

\* class tokens of a rendered connection: a provisional connector has none
HasClasses(c, node_in, node_out, output_class, input_class) ==
    /\ ~c.prov
    /\ c.node_in = node_in /\ c.node_out = node_out
    /\ c.output_class = output_class /\ c.input_class = input_class

\* container.querySelector('.connection.node_in_node-i.node_out_node-o.oc.ic')
ConnIdx(s, node_in, node_out, output_class, input_class) ==
    LET hits == {i \in 1..Len(s.conns) :
                    HasClasses(s.conns[i], node_in, node_out, output_class, input_class)}
    IN  IF hits = {} THEN 0 ELSE CHOOSE i \in hits : \A j \in hits : i <= j

\* element.remove() on the i-th connection element; a selected path that
\* leaves the document stays referenced by connection_selected
RemoveConn(s, i) ==
    LET c == s.conns[i]
        rest == [j \in 1..(Len(s.conns) - 1) |-> IF j < i THEN s.conns[j] ELSE s.conns[j + 1]]
    IN  [s EXCEPT !.conns = rest,
                  !.connection_selected =
                      IF c.sel THEN [kind |-> "detached", node_in |-> c.node_in,
                                     node_out |-> c.node_out,
                                     output_class |-> c.output_class,
                                     input_class |-> c.input_class,
                                     prov |-> c.prov, pts |-> c.pts, seg |-> c.seg]
                      ELSE @]

NewConn(node_in, node_out, output_class, input_class) ==
    [node_in |-> node_in, node_out |-> node_out, output_class |-> output_class,
     input_class |-> input_class, prov |-> FALSE, sel |-> FALSE, eid |-> 0,
     \* the circle.point children in document order, each [pos_x, pos_y], and
     \* the place among the children of the path the pointer selected
     pts |-> <<>>, seg |-> 0]

\* -------------------------------------------------------------- the store
getModuleFromNodeId(s, id) ==
    LET hits == {i \in 1..Len(s.drawflow) :
                    \E node \in DOMAIN s.drawflow[i].v.data : StrictEq(node, id)}
    IN  IF hits = {} THEN Undefined ELSE s.drawflow[SetMax(hits)].k

\* getNodeFromId(id) throws when the id is in no module
getNodeFromIdThrows(s, id) == getModuleFromNodeId(s, id) = Undefined
getNodeFromId(s, id) == Data(s, getModuleFromNodeId(s, id))[id.v]

\* updateConnectionNodes('node-n') dereferences, for every rendered connection
\* leaving n, both boxes and both port elements
updateConnectionNodesThrows(s, n) ==
    \E i \in 1..Len(s.conns) :
        LET c == s.conns[i] IN
        /\ ~c.prov
        /\ c.node_out = n
        /\ \/ BoxIdx(s, c.node_in) = 0
           \/ BoxIdx(s, n) = 0
           \/ \A j \in 1..Len(s.nodes[BoxIdx(s, c.node_in)].inputs) :
                 s.nodes[BoxIdx(s, c.node_in)].inputs[j] # c.input_class
           \/ \A j \in 1..Len(s.nodes[BoxIdx(s, n)].outputs) :
                 s.nodes[BoxIdx(s, n)].outputs[j] # c.output_class

EmptyPorts(n) == [x \in 1..n |-> [k |-> x, v |-> [connections |-> <<>>]]]
Labels(n) == [x \in 1..n |-> x]

\* Where a handler goes on with the state an earlier statement left, the rest
\* of the handler is a local operator on that state, defined before its use:
\* the local operators of a handler read from the last one up.
addNode(s, num_in, num_out) ==
    LET newNodeId == s.nodeId
        box == [id |-> newNodeId, inputs |-> Labels(num_in), outputs |-> Labels(num_out)]
        \* data: 0, the object the caller passed
        json == [id |-> newNodeId, data |-> 0,
                 inputs |-> EmptyPorts(num_in), outputs |-> EmptyPorts(num_out)]
        \* the counter is advanced once the listeners have run
        Dispatched(s2) ==
            IF s2.thrown THEN s2
            ELSE [s2 EXCEPT !.nodeId = @ + 1, !.ret = NumRet(newNodeId),
                            !.returned = @ \cup {newNodeId}]
        \* the record is stored and nodeCreated dispatched
        Stored_(s1) ==
            IF ~HasModule(s1, s1.module) THEN Throw(s1)
            ELSE Dispatched(dispatch(SetData(s1, s1.module,
                                             Put(Data(s1, s1.module), newNodeId, json)),
                                     "nodeCreated", <<newNodeId>>))
    IN  \* the box is appended to the canvas first
        Stored_([s EXCEPT !.nodes = Append(@, box)])

addConnection(s, id_output, id_input, output_class, input_class) ==
    LET nodeOneModule == getModuleFromNodeId(s, id_output)
        nodeTwoModule == getModuleFromNodeId(s, id_input)
        dataNode == getNodeFromId(s, id_output)
        exist == \E i \in 1..Len(OMGet(dataNode.outputs, output_class).connections) :
                    LET connectionSearch == OMGet(dataNode.outputs, output_class).connections[i]
                    IN  LooseEq(connectionSearch.node, id_input)
                        /\ connectionSearch.output = input_class
        \* 3: updateConnectionNodes on both nodes, then connectionCreated
        Drawn(s3) ==
            IF s.module = nodeOneModule
               /\ (updateConnectionNodesThrows(s3, id_output.v)
                   \/ updateConnectionNodesThrows(s3, id_input.v))
            THEN Throw(s3)
            ELSE dispatch(s3, "connectionCreated",
                          <<id_output.v, id_input.v, output_class, input_class>>)
        \* 2: the entry of the input side, then the element on the canvas
        PushedOut(s1) ==
            IF ~HasPort(s1, nodeOneModule, id_input.v, "inputs", input_class) THEN Throw(s1)
            ELSE Drawn([SetConnections(s1, nodeOneModule, id_input.v, "inputs", input_class,
                           Append(Connections(s1, nodeOneModule, id_input.v, "inputs",
                                              input_class),
                                  [node |-> id_output.v, input |-> output_class]))
                          EXCEPT !.conns =
                              IF s.module = nodeOneModule
                              THEN Append(@, NewConn(id_input.v, id_output.v,
                                                     output_class, input_class))
                              ELSE @])
    IN
    IF nodeOneModule # nodeTwoModule THEN s
    ELSE IF getNodeFromIdThrows(s, id_output) THEN Throw(s)
    ELSE IF ~OMHas(dataNode.outputs, output_class) THEN Throw(s)
    ELSE IF exist THEN s
    ELSE \* 1: the entry of the output side
         PushedOut(SetConnections(s, nodeOneModule, id_output.v, "outputs", output_class,
                       Append(Connections(s, nodeOneModule, id_output.v, "outputs",
                                          output_class),
                              [node |-> id_input.v, output |-> input_class])))

removeSingleConnection(s, id_output, id_input, output_class, input_class) ==
    LET nodeOneModule == getModuleFromNodeId(s, id_output)
        nodeTwoModule == getModuleFromNodeId(s, id_input)
        no == id_output.v
        ni == id_input.v
        outs == Connections(s, nodeOneModule, no, "outputs", output_class)
        exists == FindEntry(outs, [node |-> ni, output |-> input_class])
        SpliceIn(ins) == Splice1(ins, FindEntry(ins, [node |-> no, input |-> output_class]))
        \* 2: the splice of the input side, connectionRemoved, return true
        SplicedOut(s2) ==
            IF ~HasPort(s2, nodeOneModule, ni, "inputs", input_class) THEN Throw(s2)
            ELSE [dispatch(SetConnections(s2, nodeOneModule, ni, "inputs", input_class,
                               SpliceIn(Connections(s2, nodeOneModule, ni, "inputs",
                                                    input_class))),
                           "connectionRemoved", <<no, ni, output_class, input_class>>)
                     EXCEPT !.ret = BoolRet(TRUE)]
        \* 1: the splice of the output side
        Undrawn(s1) ==
            SplicedOut(SetConnections(s1, nodeOneModule, no, "outputs", output_class,
                                      Splice1(outs, exists)))
    IN
    IF nodeOneModule # nodeTwoModule THEN [s EXCEPT !.ret = BoolRet(FALSE)]
    ELSE IF ~HasPort(s, nodeOneModule, no, "outputs", output_class) THEN Throw(s)
    ELSE IF exists = -1 THEN [s EXCEPT !.ret = BoolRet(FALSE)]
    ELSE IF s.module = nodeOneModule
            /\ ConnIdx(s, ni, no, output_class, input_class) = 0 THEN Throw(s)
    ELSE \* the element leaves the canvas when the module is the active one
         Undrawn(IF s.module = nodeOneModule
                 THEN RemoveConn(s, ConnIdx(s, ni, no, output_class, input_class))
                 ELSE s)

\* the two splices of removeConnection and removeConnectionNodeId on the
\* active module, for the class list of one connection element; first names
\* the side spliced first.  Throws where a property of undefined is read.
spliceOutput(s, c) ==
    IF ~HasPort(s, s.module, c.node_out, "outputs", c.output_class) THEN Throw(s)
    ELSE LET outs == Connections(s, s.module, c.node_out, "outputs", c.output_class)
             index_out == FindEntry(outs, [node |-> c.node_in, output |-> c.input_class])
         IN  SetConnections(s, s.module, c.node_out, "outputs", c.output_class,
                            Splice1(outs, index_out))

spliceInput(s, c) ==
    IF ~HasPort(s, s.module, c.node_in, "inputs", c.input_class) THEN Throw(s)
    ELSE LET ins == Connections(s, s.module, c.node_in, "inputs", c.input_class)
             index_in == FindEntry(ins, [node |-> c.node_out, input |-> c.output_class])
         IN  SetConnections(s, s.module, c.node_in, "inputs", c.input_class,
                            Splice1(ins, index_in))

spliceBoth(s, c, first) ==
    LET Second(s1) ==
            IF s1.thrown THEN s1
            ELSE IF first = "inputs" THEN spliceOutput(s1, c) ELSE spliceInput(s1, c)
    IN  Second(IF first = "inputs" THEN spliceInput(s, c) ELSE spliceOutput(s, c))

\* One loop of removeConnectionNodeId over elems, the elements
\* querySelectorAll gave before the loop began, from the last to the first; i
\* is the element examined.  An element a listener has taken out of the
\* document meanwhile is still in elems: its classes are read, the two
\* splices are made and remove() does nothing.
RECURSIVE removeConnectionLoop(_, _, _, _)
removeConnectionLoop(s, elems, first, i) ==
    IF i = 0 \/ s.thrown THEN s
    ELSE
    LET c == elems[i]
        here == {j \in 1..Len(s.conns) : s.conns[j].eid = c.eid}
        \* the element is removed, connectionRemoved dispatched
        Spliced(s1) ==
            IF s1.thrown THEN s1
            ELSE removeConnectionLoop(
                     dispatch(IF here = {} THEN s1
                              ELSE RemoveConn(s1, CHOOSE j \in here : TRUE),
                              "connectionRemoved",
                              <<c.node_out, c.node_in, c.output_class, c.input_class>>),
                     elems, first, i - 1)
    IN  Spliced(spliceBoth(s, c, first))

\* While the two loops run, eid tells the connection elements apart: elems
\* holds elements, not their class lists.
removeConnectionNodeId(s, n) ==
    LET Elems(s0, side) ==
            SelectSeq(s0.conns,
                      LAMBDA c : ~c.prov /\ (IF side = "out" THEN c.node_out = n
                                              ELSE c.node_in = n))
        Done(s2) == [s2 EXCEPT !.conns = [j \in 1..Len(@) |-> [@[j] EXCEPT !.eid = 0]]]
        Incoming(s1) ==
            IF s1.thrown THEN s1
            ELSE removeConnectionLoop(s1, Elems(s1, "in"), "outputs",
                                      Len(Elems(s1, "in")))
        Outgoing(s0) ==
            removeConnectionLoop(s0, Elems(s0, "out"), "inputs", Len(Elems(s0, "out")))
    IN  Done(Incoming(Outgoing(
            [s EXCEPT !.conns = [j \in 1..Len(@) |-> [@[j] EXCEPT !.eid = j]]])))

\* the box leaves the canvas with what it holds
RemoveBox(s, i) ==
    [s EXCEPT !.nodes = [j \in 1..(Len(s.nodes) - 1) |->
                            IF j < i THEN s.nodes[j] ELSE s.nodes[j + 1]],
              !.deletebox = IF @ = [kind |-> "drawflow-delete", node |-> s.nodes[i].id]
                            THEN Null ELSE @]

\* removeNodeId('node-n')
removeNodeId(s, n) ==
    LET \* 3: delete the record, dispatch nodeRemoved
        Unboxed(s2, moduleName) ==
            IF moduleName = Undefined THEN Throw(s2)
            ELSE dispatch(SetData(s2, moduleName, Del(Data(s2, moduleName), n)),
                          "nodeRemoved", <<n>>)
        \* 2: the box leaves the canvas when the node is in the active module
        Located(s1, moduleName) ==
            IF s1.module = moduleName /\ BoxIdx(s1, n) = 0 THEN Throw(s1)
            ELSE Unboxed(IF s1.module = moduleName THEN RemoveBox(s1, BoxIdx(s1, n))
                         ELSE s1,
                         moduleName)
        \* 1: getModuleFromNodeId
        Disconnected(s1) ==
            IF s1.thrown THEN s1 ELSE Located(s1, getModuleFromNodeId(s1, Str(n)))
    IN  Disconnected(removeConnectionNodeId(s, n))

removeConnection(s) ==
    IF s.connection_selected.kind = "null" THEN s
    ELSE
    LET live == s.connection_selected.kind = "live"
        i == CHOOSE j \in 1..Len(s.conns) : s.conns[j].sel
        c == IF live THEN s.conns[i] ELSE s.connection_selected
        Spliced(s2) ==
            IF s2.thrown THEN s2
            ELSE [dispatch(s2, "connectionRemoved",
                           <<c.node_out, c.node_in, c.output_class, c.input_class>>)
                     EXCEPT !.connection_selected = Null]
    IN  Spliced(spliceBoth(IF live THEN RemoveConn(s, i) ELSE s, c, "outputs"))

\* updateNodeDataFromId(id, data): data is 0 for an object without entries,
\* 1 for an object with one entry that is no object.  For a node of the
\* active module every such entry is looked up inside the box '#node-id'.
updateNodeDataFromId(s, id, data) ==
    LET moduleName == getModuleFromNodeId(s, id)
        Written(s1) ==
            IF s.module = moduleName /\ data = 1 /\ BoxIdx(s1, id.v) = 0 THEN Throw(s1)
            ELSE s1
    IN  IF moduleName = Undefined THEN Throw(s)
        ELSE Written(SetData(s, moduleName,
                             [Data(s, moduleName) EXCEPT ![id.v].data = data]))

\* ------------------------------------------------------------------ ports
\* the first box '#node-n' that holds a port element with this label, 0 if none
PortBoxIdx(s, n, side, label) ==
    LET hits == {i \in 1..Len(s.nodes) :
                    /\ s.nodes[i].id = n
                    /\ \E j \in 1..Len(Ports(s.nodes[i], side)) :
                          Ports(s.nodes[i], side)[j] = label}
    IN  IF hits = {} THEN 0 ELSE CHOOSE i \in hits : \A j \in hits : i <= j

SetBoxPorts(s, i, side, labels) ==
    IF side = "inputs" THEN [s EXCEPT !.nodes[i].inputs = labels]
    ELSE [s EXCEPT !.nodes[i].outputs = labels]

\* parent.appendChild(port element) in box '#node-n'
AppendPortElement(s, n, side, label) ==
    SetBoxPorts(s, BoxIdx(s, n), side, Append(Ports(s.nodes[BoxIdx(s, n)], side), label))

\* querySelector('#node-n .<side> .<port>.<label>').remove()
RemovePortElement(s, n, side, label) ==
    LET i == PortBoxIdx(s, n, side, label)
        labels == Ports(s.nodes[i], side)
        j == CHOOSE x \in 1..Len(labels) :
                 labels[x] = label /\ \A y \in 1..(x - 1) : labels[y] # label
    IN  SetBoxPorts(s, i, side, Splice1(labels, j - 1))

\* the port elements of every '#node-n' whose number exceeds removed move down
RenumberPortElements(s, n, side, removed) ==
    [s EXCEPT !.nodes = [i \in 1..Len(s.nodes) |->
        IF s.nodes[i].id # n THEN s.nodes[i]
        ELSE IF side = "inputs"
             THEN [s.nodes[i] EXCEPT !.inputs = [j \in 1..Len(@) |->
                      IF removed < @[j] THEN @[j] - 1 ELSE @[j]]]
             ELSE [s.nodes[i] EXCEPT !.outputs = [j \in 1..Len(@) |->
                      IF removed < @[j] THEN @[j] - 1 ELSE @[j]]]]]

SetPorts(s, m, n, side, ports) ==
    LET d == Data(s, m)
    IN  SetData(s, m, [d EXCEPT ![n] =
            IF side = "inputs" THEN [@ EXCEPT !.inputs = ports]
            ELSE [@ EXCEPT !.outputs = ports]])

addNodePort(s, id, side) ==
    LET moduleName == getModuleFromNodeId(s, id)
        n == id.v
        numPorts == Len(Ports(getNodeFromId(s, id), side))
        \* updateConnectionNodes, then the port in the record
        Appended(s1) ==
            IF s.module = moduleName /\ updateConnectionNodesThrows(s1, n) THEN Throw(s1)
            ELSE SetPorts(s1, moduleName, n, side,
                          OMSet(Ports(Data(s1, moduleName)[n], side), numPorts + 1,
                                [connections |-> <<>>]))
    IN
    IF getNodeFromIdThrows(s, id) THEN Throw(s)
    ELSE IF s.module = moduleName /\ BoxIdx(s, n) = 0 THEN Throw(s)
    ELSE \* the port element, when the module is the active one
         Appended(IF s.module = moduleName
                  THEN AppendPortElement(s, n, side, numPorts + 1) ELSE s)

addNodeInput(s, id) == addNodePort(s, id, "inputs")
addNodeOutput(s, id) == addNodePort(s, id, "outputs")

\* the field of a connection entry that names the peer's port
PeerPort(e, side) == IF side = "inputs" THEN e.input ELSE e.output
OtherSide(side) == IF side = "inputs" THEN "outputs" ELSE "inputs"
PeerEntry(node, port, side) ==
    IF side = "inputs" THEN [node |-> node, input |-> port]
    ELSE [node |-> node, output |-> port]

\* the entry a renumbering writes over itemz, without its points
BareEntry(itemz, port, side) == PeerEntry(itemz.node, port, side)

\* { node: itemz.node, output: port, points: itemz.points } if (itemz.points),
\* { node: itemz.node, output: port } otherwise; input: port on the inputs
RenumberedEntry(itemz, port, side) ==
    IF "points" \in DOMAIN itemz
    THEN IF side = "inputs"
         THEN [node |-> itemz.node, input |-> port, points |-> itemz.points]
         ELSE [node |-> itemz.node, output |-> port, points |-> itemz.points]
    ELSE PeerEntry(itemz.node, port, side)

\* removeInputs.forEach / removeOutputs.forEach: removeSingleConnection for
\* every entry the port held when the call began
RECURSIVE removePortConnections(_, _, _, _, _, _)
removePortConnections(s, id, side, label, entries, i) ==
    IF i > Len(entries) \/ s.thrown THEN s
    ELSE
    LET e == entries[i]
    IN  removePortConnections(
            removeSingleConnection(s,
                IF side = "inputs" THEN Str(e.node) ELSE id,
                IF side = "inputs" THEN id ELSE Str(e.node),
                IF side = "inputs" THEN e.input ELSE label,
                IF side = "inputs" THEN label ELSE e.output),
            id, side, label, entries, i + 1)

\* the entries of the remaining ports, in port order, without repetition
RECURSIVE AllEntries(_, _)
AllEntries(ports, i) ==
    IF i > Len(ports) THEN <<>>
    ELSE ports[i].v.connections \o AllEntries(ports, i + 1)

\* nodeUpdates.push({ node: connection.node, output: connection.output })
BareOutputs(a) == [x \in 1..Len(a) |-> [node |-> a[x].node, output |-> a[x].output]]

Dedup(a) ==
    LET f[i \in 0..Len(a)] ==
            IF i = 0 THEN <<>>
            ELSE IF \E j \in 1..(i - 1) : a[j] = a[i] THEN f[i - 1]
            ELSE Append(f[i - 1], a[i])
    IN  f[Len(a)]

\* the class of a rendered connection that names a port of the given side
SetConnClass(s, i, side, label) ==
    IF side = "inputs" THEN [s EXCEPT !.conns[i].input_class = label]
    ELSE [s EXCEPT !.conns[i].output_class = label]

\* connections.forEach((itemz, index) => ...) on one peer port: every entry
\* naming node n at a port above removed is rewritten one port lower
RECURSIVE renumberPeerEntries(_, _, _, _, _, _, _)
renumberPeerEntries(s, m, n, side, removed, itemx, index) ==
    LET peer == itemx.node
        peerPort == PeerPort(itemx, side)
    IN
    IF s.thrown \/ index > Len(Connections(s, m, peer, OtherSide(side), peerPort)) THEN s
    ELSE
    LET a == Connections(s, m, peer, OtherSide(side), peerPort)
        itemz == a[index]
        was == PeerPort(itemz, OtherSide(side))
        ele == IF side = "inputs" THEN ConnIdx(s, n, peer, peerPort, was)
               ELSE ConnIdx(s, peer, n, was, peerPort)
        \* the entry is rewritten after the class of the element
        Reclassed(s1) ==
            renumberPeerEntries(
                SetConnections(s1, m, peer, OtherSide(side), peerPort,
                    [a EXCEPT ![index] = RenumberedEntry(itemz, was - 1, OtherSide(side))]),
                m, n, side, removed, itemx, index + 1)
    IN
    IF ~(itemz.node = n /\ removed < was)
    THEN renumberPeerEntries(s, m, n, side, removed, itemx, index + 1)
    ELSE IF s.module = m /\ ele = 0 THEN Throw(s)
    ELSE Reclassed(IF s.module = m THEN SetConnClass(s, ele, side, was - 1) ELSE s)

\* nodeUpdates.forEach((itemx) => ...)
RECURSIVE renumberPeers(_, _, _, _, _, _, _)
renumberPeers(s, m, n, side, removed, nodeUpdates, i) ==
    IF i > Len(nodeUpdates) \/ s.thrown THEN s
    ELSE
    LET itemx == nodeUpdates[i] IN
    IF ~HasPort(s, m, itemx.node, OtherSide(side), PeerPort(itemx, side)) THEN Throw(s)
    ELSE renumberPeers(renumberPeerEntries(s, m, n, side, removed, itemx, 1),
                       m, n, side, removed, nodeUpdates, i + 1)

\* delete the port and leave every other port under the label it had
DeletePort(ports, label) == OMDel(ports, label)

\* delete the port, then give the remaining ports the labels 1..N in order
RenumberPorts(ports, label) ==
    LET rest == OMDel(ports, label)
    IN  [i \in 1..Len(rest) |-> [k |-> i, v |-> rest[i].v]]

removeNodePort(s, id, label, side) ==
    LET moduleName == getModuleFromNodeId(s, id)
        n == id.v
        active == s.module = moduleName
        \* 4: updateConnectionNodes
        PeersRenumbered(s5) ==
            IF s5.thrown THEN s5
            ELSE IF updateConnectionNodesThrows(s5, n) THEN Throw([s5 EXCEPT !.ret = NoRet])
            ELSE [s5 EXCEPT !.ret = NoRet]
        \* 3: the port elements are renamed, then the entries of the peers
        Renumbered_(s3, ports) ==
            PeersRenumbered(
                renumberPeers(IF active THEN RenumberPortElements(s3, n, side, label)
                              ELSE s3,
                              moduleName, n, side, label,
                              Dedup(IF side = "outputs"
                                    THEN BareOutputs(AllEntries(ports, 1))
                                    ELSE AllEntries(ports, 1)), 1))
        \* 2: the port is deleted and the remaining ports renumbered
        Deleted(s2, ports) == Renumbered_(SetPorts(s2, moduleName, n, side, ports), ports)
        Disconnected(s2) ==
            IF s2.thrown THEN s2
            ELSE Deleted(s2, RenumberPorts(Ports(Data(s2, moduleName)[n], side), label))
        \* 1: removeSingleConnection for every connection of the port
        ElementRemoved(s1) ==
            IF ~OMHas(Ports(getNodeFromId(s, id), side), label) THEN Throw(s1)
            ELSE Disconnected(
                     removePortConnections(s1, id, side, label,
                         OMGet(Ports(getNodeFromId(s, id), side), label).connections, 1))
    IN
    IF getNodeFromIdThrows(s, id) THEN Throw(s)
    ELSE IF active /\ PortBoxIdx(s, n, side, label) = 0 THEN Throw(s)
    ELSE \* the port element leaves its box when the module is the active one
         ElementRemoved(IF active THEN RemovePortElement(s, n, side, label) ELSE s)

removeNodeInput(s, id, input_class) == removeNodePort(s, id, input_class, "inputs")
removeNodeOutput(s, id, output_class) == removeNodePort(s, id, output_class, "outputs")

\* ---------------------------------------------------------------- modules
\* precanvas.innerHTML = "": a selected path leaves the document with it
ClearPrecanvas(s) ==
    LET sel == {i \in 1..Len(s.conns) : s.conns[i].sel}
        s1 == IF sel = {} THEN s ELSE RemoveConn(s, CHOOSE i \in sel : TRUE)
    IN  [s1 EXCEPT !.nodes = <<>>, !.conns = <<>>, !.deletebox = Null]

\* addNodeImport: one connection element per entry of every input, then the box
RECURSIVE ImportConns(_, _, _, _)
ImportConns(key, inputs, i, j) ==
    IF i > Len(inputs) THEN <<>>
    ELSE IF j > Len(inputs[i].v.connections) THEN ImportConns(key, inputs, i + 1, 1)
    ELSE <<NewConn(key, inputs[i].v.connections[j].node,
                   inputs[i].v.connections[j].input, inputs[i].k)>>
         \o ImportConns(key, inputs, i, j + 1)

addNodeImport(s, key, dataNode) ==
    [s EXCEPT !.conns = @ \o ImportConns(key, dataNode.inputs, 1, 1),
              !.nodes = Append(@, [id |-> key,
                                   inputs |-> [x \in 1..Len(dataNode.inputs) |->
                                                  dataNode.inputs[x].k],
                                   outputs |-> Labels(Len(dataNode.outputs))])]

\* for (var key in data): integer-like keys in ascending order
RECURSIVE loadNodes(_, _)
loadNodes(s, keys) ==
    IF keys = {} THEN s
    ELSE LET key == CHOOSE x \in keys : \A y \in keys : x <= y
         IN  loadNodes(addNodeImport(s, key, Data(s, s.module)[key]), keys \ {key})

\* the ids of the active module alone
ActiveNodeIds(s) == IF HasModule(s, s.module) THEN DOMAIN Data(s, s.module) ELSE {}

AllNodeIds(s) == UNION {DOMAIN s.drawflow[i].v.data : i \in 1..Len(s.drawflow)}

\* Under an inherited name the lookup gives a function, its .data is
\* undefined and for (key in undefined) runs no iteration; under a name that
\* is not found at all, .data of undefined is a TypeError.
load(s) ==
    LET keys == IF HasModule(s, s.module) THEN DOMAIN Data(s, s.module) ELSE {}
        \* updateConnectionNodes for every key, then the counter
        Loaded(s1) ==
            IF \E key \in keys : updateConnectionNodesThrows(s1, key)
            THEN Throw(s1)
            ELSE [s1 EXCEPT !.nodeId = IF AllNodeIds(s1) = {} THEN 1
                                       ELSE SetMax(AllNodeIds(s1)) + 1]
    IN  IF ~ModuleLookup(s, s.module) THEN Throw(s)
        ELSE Loaded(loadNodes(s, keys))

clear(s) ==
    [ClearPrecanvas(s) EXCEPT !.drawflow = <<[k |-> "Home", v |-> EmptyModule]>>]

clearModuleSelected(s) ==
    [ClearPrecanvas(s) EXCEPT !.drawflow = OMSet(@, s.module, EmptyModule)]

\* JSON.parse(JSON.stringify(value)) on what the store holds.  An object is
\* written key by key in enumeration order and read back with the same keys;
\* an array element by element; a number and a string as themselves.  The
\* user data of a node (0, 1) stands for an object JSON can hold.
\* a copy that keeps the modules and drops what they hold
CloneModules(df) == [i \in 1..Len(df) |-> [k |-> df[i].k, v |-> EmptyModule]]

JSONClone(df) ==
    LET JSONConnection(e) == [f \in DOMAIN e |-> e[f]]
        JSONPorts(ports) ==
            [i \in 1..Len(ports) |->
                [k |-> ports[i].k,
                 v |-> [connections |->
                           [x \in 1..Len(ports[i].v.connections) |->
                               JSONConnection(ports[i].v.connections[x])]]]]
        JSONNode(node) ==
            [id |-> node.id, data |-> node.data,
             inputs |-> JSONPorts(node.inputs), outputs |-> JSONPorts(node.outputs)]
    IN  [i \in 1..Len(df) |->
            [k |-> df[i].k,
             v |-> [data |-> [n \in DOMAIN df[i].v.data |->
                                 JSONNode(df[i].v.data[n])]]]]

\* an import that stops after clear()
importCleared(s, data, notifi) == load(clear(s))

import(s, data, notifi) ==
    LET Loaded(s1) == IF s1.thrown \/ ~notifi THEN s1 ELSE dispatch(s1, "import", <<>>)
    IN  Loaded(load([clear(s) EXCEPT !.drawflow = JSONClone(data), !.ret = NoRet]))

export(s) ==
    [dispatch(s, "export", <<>>) EXCEPT !.ret = [t |-> "json", v |-> JSONClone(s.drawflow)]]

addModule(s, name) ==
    IF ModuleLookup(s, name) THEN Throw(s)
    ELSE dispatch([s EXCEPT !.drawflow = OMSet(@, name, EmptyModule)],
                  "moduleCreated", <<name>>)

changeModule(s, name) ==
    LET Switched(s2) == import(s2, s2.drawflow, FALSE)
    IN  IF ~ModuleLookup(s, name) THEN Throw(s)
        ELSE Switched([ClearPrecanvas([dispatch(s, "moduleChanged", <<name>>)
                                          EXCEPT !.module = name])
                          EXCEPT !.canvas_x = 0, !.canvas_y = 0, !.pos_x = 0, !.pos_y = 0,
                                 !.zoom = One, !.zoom_last_value = One])

removeModule(s, name) ==
    LET Left(s1) ==
            IF s1.thrown THEN s1
            ELSE dispatch([s1 EXCEPT !.drawflow = OMDel(@, name)],
                          "moduleRemoved", <<name>>)
    IN  IF ~ModuleLookup(s, name) THEN Throw(s)
        ELSE Left(IF s.module = name THEN changeModule(s, "Home") ELSE s)

\* ---------------------------------------------------------------- gestures
\* if (this.connection_selected != null) { ... } of click
unselectConnection(s) ==
    IF s.connection_selected.kind = "null" THEN s
    ELSE [dispatch(s, "connectionUnselected", <<>>)
             EXCEPT !.conns = [i \in 1..Len(@) |-> [@[i] EXCEPT !.sel = FALSE, !.seg = 0]],
                    !.connection_selected = Null]

unselectNodeSilent(s) == [s EXCEPT !.node_selected = Null]

\* if (this.node_selected != null) { ... } of the cases output, drawflow and
\* main-path of click
unselectNode(s) ==
    IF s.node_selected.kind = "null" THEN s
    ELSE dispatch([s EXCEPT !.node_selected = Null], "nodeUnselected", <<>>)

\* case 'drawflow-node' of click; the pointer is on no form field of the box
clickNode(s) ==
    LET changed == s.node_selected # s.ele_selected
        Selected(s2) ==
            [(IF changed THEN dispatch(s2, "nodeSelected", <<s.ele_selected.node>>) ELSE s2)
                EXCEPT !.node_selected = s.ele_selected, !.drag = TRUE]
    IN  Selected(unselectConnection(
            IF s.node_selected.kind # "null" /\ changed
            THEN dispatch(s, "nodeUnselected", <<>>) ELSE s))

\* case 'output' of click, with drawConnection
clickOutput(s) ==
    dispatch([unselectConnection(unselectNode([s EXCEPT !.connection = TRUE]))
                 EXCEPT !.conns = Append(@, [NewConn(0, 0, 0, 0) EXCEPT !.prov = TRUE])],
             "connectionStart", <<s.ele_selected.node, s.ele_selected.class>>)

\* cases 'parent-drawflow' and 'drawflow' of click
clickDrawflow(s) ==
    [unselectConnection(unselectNode(s)) EXCEPT !.editor_selected = TRUE]

\* case 'main-path' of click, on the path of the i-th connection element
\* that is child seg of it, counted from 0
clickMainPath(s, i, seg) ==
    LET Selected(s1) ==
            [s1 EXCEPT !.conns = [j \in 1..Len(@) |->
                                     [@[j] EXCEPT !.sel = (j = i),
                                                  !.seg = IF j = i THEN seg ELSE 0]],
                       !.connection_selected = [kind |-> "live"]]
        Unselected(s1) ==
            IF s1.conns[i].prov THEN Selected(s1)
            ELSE dispatch(Selected(s1),
                          "connectionSelected",
                          <<s1.conns[i].node_out, s1.conns[i].node_in,
                            s1.conns[i].output_class, s1.conns[i].input_class>>)
    IN  Unselected(unselectConnection(unselectNode(s)))

\* pointer down on target at (x, y).  The elements a pointer goes down on, by
\* the first class of each: the background [kind |-> "drawflow"], the body of
\* a box [kind |-> "drawflow-node", node], an output of a box
\* [kind |-> "output", node, class], the path of the i-th connection element
\* [kind |-> "main-path", i, j], the k-th point of the i-th connection element
\* [kind |-> "point", i, k], the delete glyph [kind |-> "drawflow-delete"].

click(s, target, x, y) ==
    LET background == target.kind \in {"parent-drawflow", "drawflow"}
        \* what the mode makes of the target: in fixed mode a click off the
        \* background returns at once; in view mode every click selects the
        \* container
        ele == IF s.editor_mode \in {"fixed", "view"} THEN [kind |-> "parent-drawflow"]
               ELSE IF target.kind = "main-path" THEN [kind |-> "main-path"]
               ELSE target
        \* case 'drawflow-delete'
        Unselected(s4) ==
            IF s4.thrown THEN s4 ELSE unselectConnection(unselectNode(s4))
        NodeRemoved(s3) ==
            Unselected(IF s3.thrown \/ s3.connection_selected.kind = "null" THEN s3
                       ELSE removeConnection(s3))
        Deleted(s2) ==
            NodeRemoved(IF s2.node_selected.kind = "null" THEN s2
                        ELSE removeNodeId(s2, s2.node_selected.node))
        Switch(s1) ==
            CASE ele.kind = "drawflow-node" -> clickNode(s1)
              [] ele.kind = "output" -> clickOutput(s1)
              [] ele.kind \in {"parent-drawflow", "drawflow"} -> clickDrawflow(s1)
              [] ele.kind = "main-path" -> clickMainPath(s1, target.i, target.j)
              [] ele.kind = "point" -> [s1 EXCEPT !.drag_point = TRUE]
              [] ele.kind = "drawflow-delete" -> Deleted(s1)
              [] OTHER -> s1
        Captured(s2) ==
            IF s2.thrown THEN s2
            ELSE dispatch([s2 EXCEPT !.pos_x = x, !.pos_y = y,
                                     !.pos_x_start = x, !.pos_y_start = y],
                          "clickEnd", <<>>)
    IN  IF s.editor_mode = "fixed" /\ ~background THEN dispatch(s, "click", <<>>)
        ELSE Captured(Switch([dispatch(s, "click", <<>>)
                                 EXCEPT !.ele_selected = ele,
                                        \* contextmenuDel, on a click in edit mode
                                        !.deletebox = IF s.editor_mode = "edit"
                                                      THEN Null ELSE @]))

\* this.connection_ele: the element drawConnection appended last
ProvIdx(s) ==
    CHOOSE i \in 1..Len(s.conns) :
        s.conns[i].prov /\ \A k \in (i + 1)..Len(s.conns) : ~s.conns[k].prov

connectionCancel(s) ==
    RemoveConn(dispatch(s, "connectionCancel", <<>>), ProvIdx(s))

\* the commit branch of dragEnd (lines 1011-1030)
dragEndCommit(s, id_output, id_input, output_class, input_class) ==
    LET \* 3: updateConnectionNodes on both nodes, then connectionCreated
        PushedIn(s3) ==
            IF updateConnectionNodesThrows(s3, id_output)
               \/ updateConnectionNodesThrows(s3, id_input) THEN Throw(s3)
            ELSE dispatch(s3, "connectionCreated",
                          <<id_output, id_input, output_class, input_class>>)
        \* 2: the entry of the input side
        PushedOut(s2) ==
            IF ~HasPort(s2, s2.module, id_input, "inputs", input_class) THEN Throw(s2)
            ELSE PushedIn(SetConnections(s2, s2.module, id_input, "inputs", input_class,
                     Append(Connections(s2, s2.module, id_input, "inputs", input_class),
                            [node |-> id_output, input |-> output_class])))
        \* 1: the entry of the output side
        Classed(s1) ==
            IF ~HasPort(s1, s1.module, id_output, "outputs", output_class) THEN Throw(s1)
            ELSE PushedOut(SetConnections(s1, s1.module, id_output, "outputs", output_class,
                     Append(Connections(s1, s1.module, id_output, "outputs", output_class),
                            [node |-> id_input, output |-> input_class])))
    IN  \* the element under the pointer gets the four classes
        Classed([s EXCEPT !.conns[ProvIdx(s)] =
                    [NewConn(id_input, id_output, output_class, input_class)
                        EXCEPT !.sel = s.conns[ProvIdx(s)].sel]])

\* pointer up at (x, y) on ele_last: the j-th input element of the b-th box,
\* or, with b = 0, an element that is no input (force_first_input is off).
\* No position event came since the pointer went down, so pos_x_start is
\* pos_x.
dragEnd(s, b, j, x, y) ==
    LET input_id == s.nodes[b].id
        input_class == s.nodes[b].inputs[j]
        \* ele_selected.parentElement.parentElement.id and
        \* ele_selected.classList[1]: the box and the class of an output; of
        \* any other element an id and a class that name no node and no port (0)
        output_id == IF s.ele_selected.kind = "output" THEN s.ele_selected.node ELSE 0
        output_class == IF s.ele_selected.kind = "output" THEN s.ele_selected.class ELSE 0
        moved == s.pos_x_start # x \/ s.pos_y_start # y
        \* 5: the flags are reset
        Released(s3) ==
            IF s3.thrown THEN s3
            ELSE dispatch([s3 EXCEPT !.drag = FALSE, !.drag_point = FALSE,
                                     !.connection = FALSE,
                                     !.ele_selected = Null, !.editor_selected = FALSE],
                          "mouseUp", <<>>)
        \* 4: the connection
        Panned(s2) ==
            Released(IF ~s2.connection THEN s2
                     ELSE IF b = 0 THEN connectionCancel(s2)
                     ELSE IF output_id = input_id THEN connectionCancel(s2)
                     ELSE IF ConnIdx(s2, input_id, output_id, output_class, input_class) = 0
                     THEN dragEndCommit(s2, output_id, input_id, output_class, input_class)
                     ELSE connectionCancel(s2))
        \* 3: the canvas
        Moved(s1) ==
            IF s1.thrown THEN s1
            ELSE Panned(IF s1.editor_selected
                        THEN [s1 EXCEPT !.canvas_x = @ + (x - s1.pos_x),
                                        !.canvas_y = @ + (y - s1.pos_y),
                                        !.editor_selected = FALSE]
                        ELSE s1)
        \* 2: the point; classList[2] of the parent of ele_selected is the
        \* node_out class of a connection element and undefined on a box, a
        \* port or the background
        Dragged(s0) ==
            Moved(IF ~(s0.drag_point /\ moved) THEN s0
                  ELSE IF s0.ele_selected.kind = "point"
                  THEN dispatch(s0, "rerouteMoved", <<s0.conns[s0.ele_selected.i].node_out>>)
                  ELSE IF s0.ele_selected.kind = "main-path"
                  THEN dispatch(s0, "rerouteMoved", <<0>>)
                  ELSE Throw(s0))
    IN  \* 1: the node; the id of an element that is no box is the empty string
        Dragged(IF s.drag /\ moved
                THEN dispatch(s, "nodeMoved",
                              <<IF s.ele_selected.kind = "drawflow-node"
                                THEN s.ele_selected.node ELSE 0>>)
                ELSE s)

\* a pointer move to (x, y).  Of a box the horizontal place is kept, style.left
\* and pos_x of the store; the vertical runs the same code.  A reroute point
\* is held as createReroutePoint holds it.  The redrawn paths and the
\* transform of the precanvas are no state of the model.
position(s, x, y) ==
    LET \* 4: mouseMove
        Pointed(s3) ==
            IF s3.thrown THEN s3 ELSE dispatch(s3, "mouseMove", <<x, y>>)
        \* updateConnectionNodes
        Redrawn(s5, n) ==
            IF updateConnectionNodesThrows(s5, n) THEN Throw(s5) ELSE s5
        \* 3: the reroute point; classList[2] of the parent of ele_selected is
        \* undefined on a box, a port or the background
        PointAt(s2, i, k) ==
            LET c == s2.conns[i]
                point == [pos_x |-> x - s2.canvas_x, pos_y |-> y - s2.canvas_y]
                Stored(s4) ==
                    IF ~HasPort(s4, s4.module, c.node_out, "outputs", c.output_class)
                    THEN Throw(s4)
                    ELSE
                    LET outs == Connections(s4, s4.module, c.node_out, "outputs",
                                            c.output_class)
                        searchConnection ==
                            FindEntry(outs, [node |-> c.node_in, output |-> c.input_class])
                    IN  IF searchConnection = -1 THEN Throw(s4)
                        ELSE IF "points" \notin DOMAIN outs[searchConnection + 1]
                        THEN Throw(s4)
                        ELSE Redrawn(
                                 SetConnections(s4, s4.module, c.node_out, "outputs",
                                     c.output_class,
                                     [outs EXCEPT ![searchConnection + 1] =
                                         [node |-> c.node_in, output |-> c.input_class,
                                          points |-> [q \in 1..Len(@.points) |->
                                                         IF q = k THEN point
                                                         ELSE @.points[q]]]]),
                                 c.node_out)
            IN  Stored([s2 EXCEPT !.pos_x = x, !.pos_y = y,
                                  !.conns[i].pts = [q \in 1..Len(@) |->
                                                       IF q = k THEN point ELSE @[q]]])
        Dragged(s2) ==
            Pointed(IF s2.thrown \/ ~s2.drag_point THEN s2
                    ELSE IF s2.ele_selected.kind = "point"
                    THEN PointAt(s2, s2.ele_selected.i, s2.ele_selected.k)
                    ELSE Throw([s2 EXCEPT !.pos_x = x, !.pos_y = y]))
        \* 2: the box; the id of an element that is no box names no node
        BoxAt(s1, n) ==
            LET left == Px(offsetLeft(s1.place[n].left), s1.pos_x - x, s1.zoom)
            IN  IF ~(HasModule(s1, s1.module) /\ n \in DOMAIN Data(s1, s1.module))
                THEN Throw([s1 EXCEPT !.pos_x = x, !.pos_y = y, !.place[n].left = left])
                ELSE Redrawn([s1 EXCEPT !.pos_x = x, !.pos_y = y,
                                        !.place[n] = [left |-> left, pos_x |-> left]], n)
        Translated(s1) ==
            Dragged(IF s1.thrown \/ ~s1.drag THEN s1
                    ELSE IF s1.ele_selected.kind = "drawflow-node"
                    THEN BoxAt(s1, s1.ele_selected.node)
                    ELSE Throw([s1 EXCEPT !.pos_x = x, !.pos_y = y]))
    IN  \* 1: the canvas
        Translated(IF s.editor_selected
                   THEN dispatch(s, "translate",
                                 <<s.canvas_x + (x - s.pos_x), s.canvas_y + (y - s.pos_y)>>)
                   ELSE s)

\* a right click.  The delete glyph is put into the box of the selected
\* node, [kind |-> "drawflow-delete", node |-> n], and moved onto the
\* precanvas, node |-> 0, if a connection with more than one class is
\* selected; a box that has left the canvas takes the glyph with it.
contextmenu(s) ==
    LET Shown(s1) ==
            LET selected == {i \in 1..Len(s1.conns) : s1.conns[i].sel}
                onCanvas ==
                    CASE s1.connection_selected.kind = "null" -> FALSE
                      [] s1.connection_selected.kind = "live" ->
                             \E i \in selected : ~s1.conns[i].prov
                      [] OTHER -> ~s1.connection_selected.prov
                inBox == /\ s1.node_selected.kind # "null"
                         /\ \E b \in 1..Len(s1.nodes) : s1.nodes[b].id = s1.node_selected.node
            IN  [s1 EXCEPT !.deletebox =
                    IF onCanvas THEN [kind |-> "drawflow-delete", node |-> 0]
                    ELSE IF inBox
                    THEN [kind |-> "drawflow-delete", node |-> s1.node_selected.node]
                    ELSE Null]
    IN  IF dispatch(s, "contextmenu", <<>>).thrown
           \/ s.editor_mode \in {"fixed", "view"}
        THEN dispatch(s, "contextmenu", <<>>)
        ELSE Shown(dispatch(s, "contextmenu", <<>>))

\* a key press; delete tells a Delete key from any other.  first_click was on
\* no form field.
key(s, delete) ==
    LET NodeRemoved(s2) ==
            IF s2.thrown \/ s2.connection_selected.kind = "null" THEN s2
            ELSE removeConnection(s2)
        Pressed(s1) ==
            NodeRemoved(IF s1.node_selected.kind = "null" THEN s1
                        ELSE removeNodeId(s1, s1.node_selected.node))
    IN  IF s.editor_mode \in {"fixed", "view"} \/ ~delete THEN dispatch(s, "keydown", <<>>)
        ELSE Pressed(dispatch(s, "keydown", <<>>))

\* an input event from the form field of the box of node n, whose df-
\* attribute names one key of the data; value is what the field holds
updateNodeValue(s, n, value) ==
    IF ~HasModule(s, s.module) \/ n \notin DOMAIN Data(s, s.module) THEN Throw(s)
    ELSE dispatch(SetData(s, s.module, [Data(s, s.module) EXCEPT ![n].data = value]),
                  "nodeDataChanged", <<n>>)

\* -------------------------------------------------------------- curvature
\* createCurvature.  Lengths are whole pixels counted in half pixels, the
\* curvature is counted in halves (1 is the default 0.5), so that every
\* product is a whole number of half pixels.  The path string
\* 'M x1 y1 C hx1 y1 hx2 y2 x2 y2' is the sequence of its eight numbers.
Abs(n) == IF n < 0 THEN -n ELSE n

createCurvatureFlipped(start_pos_x, start_pos_y, end_pos_x, end_pos_y, curvature_value, type) ==
    LET d == (Abs(end_pos_x - start_pos_x) * curvature_value) \div 2
    IN  <<start_pos_x, start_pos_y, start_pos_x - d, start_pos_y,
          end_pos_x + d, end_pos_y, end_pos_x, end_pos_y>>

createCurvature(start_pos_x, start_pos_y, end_pos_x, end_pos_y, curvature_value, type) ==
    LET line_x == start_pos_x
        line_y == start_pos_y
        x == end_pos_x
        y == end_pos_y
        \* Math.abs(x - line_x) * curvature and Math.abs(x - line_x) * (curvature * -1)
        plus == (Abs(x - line_x) * curvature_value) \div 2
        minus == -((Abs(x - line_x) * curvature_value) \div 2)
        back == start_pos_x >= end_pos_x
        hx1 == CASE type \in {"close", "other"} /\ back -> line_x + minus
                 [] OTHER -> line_x + plus
        hx2 == CASE type \in {"open", "other"} /\ back -> x - minus
                 [] OTHER -> x - plus
    IN  <<line_x, line_y, hx1, line_y, hx2, y, x, y>>

\* ----------------------------------------------------------------- reroute
\* array.splice(index, 0, e): an index past the end appends
InsertAt(a, index, e) ==
    LET at == IF index > Len(a) THEN Len(a) ELSE index
    IN  [j \in 1..(Len(a) + 1) |->
            IF j <= at THEN a[j] ELSE IF j = at + 1 THEN e ELSE a[j - 1]]

\* the points of a connection entry; undefined (<<>>) until the first is made
PointsOf(e) == IF "points" \in DOMAIN e THEN e.points ELSE <<>>

\* createReroutePoint(this.connection_selected).  The pointer went down at
\* (pos_x, pos_y) on a canvas that is not zoomed, precanvas at (canvas_x,
\* canvas_y).  With reroute_fix_curvature an element of n points has n + 1
\* paths, which come before the points.
createReroutePoint(s) ==
    LET live == s.connection_selected.kind = "live"
        i == CHOOSE j \in 1..Len(s.conns) : s.conns[j].sel
        c == IF live THEN s.conns[i] ELSE s.connection_selected
        point == [pos_x |-> s.pos_x - s.canvas_x, pos_y |-> s.pos_y - s.canvas_y]
        numberPoints == Len(c.pts) + 1
        position_add_array_point ==
            IF s.reroute_fix_curvature /\ numberPoints # 1 THEN c.seg ELSE 0
        \* 3: addReroute, updateConnectionNodes
        Pushed(s3) ==
            IF updateConnectionNodesThrows(dispatch(s3, "addReroute", <<c.node_out>>),
                                           c.node_out)
            THEN Throw(dispatch(s3, "addReroute", <<c.node_out>>))
            ELSE dispatch(s3, "addReroute", <<c.node_out>>)
        \* 2: the point enters the store
        Appended(s2) ==
            IF ~HasPort(s2, s2.module, c.node_out, "outputs", c.output_class) THEN Throw(s2)
            ELSE
            LET outs == Connections(s2, s2.module, c.node_out, "outputs", c.output_class)
                searchConnection ==
                    FindEntry(outs, [node |-> c.node_in, output |-> c.input_class])
                entry == outs[searchConnection + 1]
                points == PointsOf(entry)
                spliced == IF s2.reroute_fix_curvature
                              /\ (position_add_array_point > 0 \/ Len(points) # 0)
                           THEN InsertAt(points, position_add_array_point, point)
                           ELSE Append(points, point)
            IN  IF searchConnection = -1 THEN Throw(s2)
                ELSE Pushed(SetConnections(s2, s2.module, c.node_out, "outputs",
                                c.output_class,
                                [outs EXCEPT ![searchConnection + 1] =
                                    [node |-> entry.node, output |-> entry.output,
                                     points |-> spliced]]))
        \* 1: the circle enters the element; a detached element is on no canvas
        Unselected(s1) ==
            Appended(IF ~live THEN s1
                     ELSE [s1 EXCEPT !.conns =
                              [j \in 1..Len(@) |->
                                  IF j # i THEN @[j]
                                  ELSE [@[j] EXCEPT !.pts =
                                           IF s.reroute_fix_curvature /\ numberPoints # 1
                                           THEN InsertAt(@, c.seg, point)
                                           ELSE Append(@, point)]]])
    IN  \* classList[2] of an element with the class connection alone is undefined
        IF c.prov THEN Throw(s)
        ELSE Unselected([s EXCEPT !.connection_selected = Null,
                                  !.conns = [j \in 1..Len(@) |->
                                                [@[j] EXCEPT !.sel = FALSE, !.seg = 0]]])

\* removeReroutePoint(ele), ele the k-th point of the i-th connection element
removeReroutePoint(s, i, k) ==
    LET c == s.conns[i]
        numberMainPath == Len(c.pts) + 1
        \* Array.from(children).indexOf(ele), from 0, then the paths taken off
        indexOfEle == IF s.reroute_fix_curvature THEN numberMainPath + (k - 1) ELSE k
        numberPointPosition ==
            IF s.reroute_fix_curvature
            THEN (IF indexOfEle - numberMainPath < 0 THEN 0 ELSE indexOfEle - numberMainPath)
            ELSE indexOfEle - 1
        \* 2: ele.remove(), removeReroute, updateConnectionNodes
        Spliced(s2) ==
            LET s3 == dispatch([s2 EXCEPT !.conns =
                                   [j \in 1..Len(@) |->
                                       IF j # i THEN @[j]
                                       ELSE [@[j] EXCEPT !.pts = Splice1(@, k - 1)]]],
                               "removeReroute", <<c.node_out>>)
            IN  IF updateConnectionNodesThrows(s3, c.node_out) THEN Throw(s3) ELSE s3
    IN  IF c.prov THEN Throw(s)
        ELSE IF ~HasPort(s, s.module, c.node_out, "outputs", c.output_class) THEN Throw(s)
        ELSE
        LET outs == Connections(s, s.module, c.node_out, "outputs", c.output_class)
            searchConnection == FindEntry(outs, [node |-> c.node_in, output |-> c.input_class])
            entry == outs[searchConnection + 1]
        IN  IF searchConnection = -1 THEN Throw(s)
            \* 1: points.splice(numberPointPosition, 1); points may be undefined
            ELSE IF "points" \notin DOMAIN entry THEN Throw(s)
            ELSE Spliced(SetConnections(s, s.module, c.node_out, "outputs", c.output_class,
                             [outs EXCEPT ![searchConnection + 1] =
                                 [node |-> entry.node, output |-> entry.output,
                                  points |-> IF numberPointPosition >= Len(entry.points)
                                             THEN entry.points
                                             ELSE Splice1(entry.points,
                                                          numberPointPosition)]]))

\* dblclick(e); e.target is a path or the k-th point of the i-th connection
\* element.  A point createReroutePoint puts before the target moves it one
\* place up.
dblclick(s, target) ==
    LET creates == s.connection_selected.kind # "null" /\ s.reroute
        sel == {j \in 1..Len(s.conns) : s.conns[j].sel}
        before == /\ creates /\ s.connection_selected.kind = "live"
                  /\ target.kind = "point" /\ target.i \in sel
                  /\ ~s.conns[target.i].prov
                  /\ s.reroute_fix_curvature /\ Len(s.conns[target.i].pts) # 0
                  /\ s.conns[target.i].seg < target.k
        Created(s1) ==
            IF s1.thrown \/ target.kind # "point" THEN s1
            ELSE removeReroutePoint(s1, target.i, IF before THEN target.k + 1 ELSE target.k)
    IN  Created(IF creates THEN createReroutePoint(s) ELSE s)

\* -------------------------------------------------------------------- zoom
\* canvas_x and canvas_y are scaled by zoom / zoom_last_value: the canvas is
\* zoomed while its offset is (0, 0), which every factor leaves at (0, 0)
zoom_refresh(s) ==
    [dispatch(s, "zoom", <<s.zoom.hi, s.zoom.lo>>) EXCEPT !.zoom_last_value = s.zoom]

zoom_in(s) ==
    IF DblLess(s.zoom, s.zoom_max)
    THEN zoom_refresh([s EXCEPT !.zoom = DblAdd(@, s.zoom_value)])
    ELSE s

zoom_out(s) ==
    IF DblLess(s.zoom_min, s.zoom)
    THEN zoom_refresh([s EXCEPT !.zoom = DblSub(@, s.zoom_value)])
    ELSE s

zoom_reset(s) ==
    IF s.zoom # One THEN zoom_refresh([s EXCEPT !.zoom = One]) ELSE s

\* ---------------------------------------------------------------- actions
\* The values callers pass: the string of every id the counter can reach and
\* a number (no key is === a number, whatever its value); every port label
\* up to one past the largest a node can hold.
IdArgs == {Str(n) : n \in 1..MaxNodeId} \cup {Num(1)}
PortArgs == 1..(MaxSize - 1)

\* the connection entries stored on one side, over the whole store
NumEntries(side) ==
    LET OfNode(node) ==
            LET f[i \in 0..Len(node[side])] ==
                    IF i = 0 THEN 0 ELSE f[i - 1] + Len(node[side][i].v.connections)
            IN  f[Len(node[side])]
        OfModule(d) ==
            LET ids == DOMAIN d
                g[S \in SUBSET ids] ==
                    IF S = {} THEN 0
                    ELSE LET x == CHOOSE y \in S : TRUE IN OfNode(d[x]) + g[S \ {x}]
            IN  g[ids]
        h[i \in 0..Len(drawflow)] ==
            IF i = 0 THEN 0 ELSE h[i - 1] + OfModule(drawflow[i].v.data)
    IN  h[Len(drawflow)]

\* the store and the canvas have room for one more connection
NumConnections ==
    SetMax({NumEntries("outputs"), NumEntries("inputs"), Len(conns)})

\* API calls and clicks arrive between gestures.  A dragEnd that threw leaves
\* this.connection set with no provisional connector: the model stops there.
Idle == ~connection /\ ~drag /\ ~editor_selected

\* ports and connections together: the port objects of the whole store or
\* the port elements of the canvas, whichever are more
Size ==
    LET OfModule(d) ==
            LET ids == DOMAIN d
                g[S \in SUBSET ids] ==
                    IF S = {} THEN 0
                    ELSE LET x == CHOOSE y \in S : TRUE
                         IN  Len(d[x].inputs) + Len(d[x].outputs) + g[S \ {x}]
            IN  g[ids]
        h[i \in 0..Len(drawflow)] ==
            IF i = 0 THEN 0 ELSE h[i - 1] + OfModule(drawflow[i].v.data)
        f[b \in 0..Len(nodes)] ==
            IF b = 0 THEN 0
            ELSE f[b - 1] + Len(nodes[b].inputs) + Len(nodes[b].outputs)
    IN  SetMax({h[Len(drawflow)], f[Len(nodes)]}) + NumConnections

AddNodeCall(num_in, num_out) ==
    Become(addNode(State, num_in, num_out), "addNode")

AddNode ==
    /\ Idle
    /\ nodeId <= MaxNodeId
    /\ Len(nodes) < MaxNodeId
    /\ \E num_in \in 0..MaxSize, num_out \in 0..MaxSize :
          Size + num_in + num_out <= MaxSize /\ AddNodeCall(num_in, num_out)

AddConnectionCall(id_output, id_input, output_class, input_class) ==
    Become(addConnection(State, id_output, id_input, output_class, input_class),
           "addConnection")

AddConnection ==
    /\ Idle
    /\ Size < MaxSize
    /\ \E o \in IdArgs, i \in IdArgs, oc \in PortArgs, ic \in PortArgs :
          AddConnectionCall(o, i, oc, ic)

RemoveSingleConnectionCall(id_output, id_input, output_class, input_class) ==
    Become(removeSingleConnection(State, id_output, id_input, output_class, input_class),
           "removeSingleConnection")

RemoveSingleConnection ==
    /\ Idle
    /\ \E o \in IdArgs, i \in IdArgs, oc \in PortArgs, ic \in PortArgs :
          RemoveSingleConnectionCall(o, i, oc, ic)

RemoveNodeIdCall(n) == Become(removeNodeId(State, n), "removeNodeId")

RemoveNodeId ==
    /\ Idle
    /\ \E n \in 1..MaxNodeId : RemoveNodeIdCall(n)

AddNodeInput ==
    /\ Idle
    /\ Size < MaxSize
    /\ \E id \in IdArgs : Become(addNodeInput(State, id), "addNodeInput")

AddNodeOutput ==
    /\ Idle
    /\ Size < MaxSize
    /\ \E id \in IdArgs : Become(addNodeOutput(State, id), "addNodeOutput")

RemoveNodeInputCall(id, input_class) ==
    Become(removeNodeInput(State, id, input_class), "removeNodeInput")

RemoveNodeInput ==
    /\ Idle
    /\ \E id \in IdArgs, k \in PortArgs : RemoveNodeInputCall(id, k)

RemoveNodeOutputCall(id, output_class) ==
    Become(removeNodeOutput(State, id, output_class), "removeNodeOutput")

RemoveNodeOutput ==
    /\ Idle
    /\ \E id \in IdArgs, k \in PortArgs : RemoveNodeOutputCall(id, k)

UpdateNodeDataFromId ==
    /\ Idle
    /\ \E id \in IdArgs, data \in {0, 1} :
          Become(updateNodeDataFromId(State, id, data), "updateNodeDataFromId")

AddModule ==
    /\ Idle
    /\ \E name \in ModuleNames : Become(addModule(State, name), "addModule")

ChangeModule ==
    /\ Idle
    /\ \E name \in ModuleNames : Become(changeModule(State, name), "changeModule")

RemoveModule ==
    /\ Idle
    /\ \E name \in ModuleNames : Become(removeModule(State, name), "removeModule")

\* editor.import(editor.export())
ImportExport ==
    /\ Idle
    /\ Become(import(export(State), export(State).ret.v, TRUE), "import")

\* the documents a caller imports: what export gave for an empty editor, for
\* one with a second module, and for one whose Home module was removed
ImportArgs ==
    {<<[k |-> "Home", v |-> EmptyModule]>>,
     <<[k |-> "Home", v |-> EmptyModule], [k |-> "Other", v |-> EmptyModule]>>,
     <<[k |-> "Other", v |-> EmptyModule]>>}

Import ==
    /\ Idle
    /\ \E data \in ImportArgs : Become(import(State, data, TRUE), "import")

Clear == Idle /\ Become(clear(State), "clear")

ClearModuleSelected == Idle /\ Become(clearModuleSelected(State), "clearModuleSelected")

RemoveConnection ==
    /\ Idle
    /\ Become(removeConnection(State), "removeConnection")

ClickOutput ==
    /\ Idle
    /\ Size < MaxSize
    /\ \E b \in 1..Len(nodes) : \E j \in 1..Len(nodes[b].outputs) :
          Become(click(State, [kind |-> "output", node |-> nodes[b].id, class |-> nodes[b].outputs[j]], 0, 0), "click")

ClickMainPath ==
    /\ Idle
    /\ \E i \in 1..Len(conns) : Become(click(State, [kind |-> "main-path", i |-> i, j |-> 0], 0, 0), "click")

DragEnd ==
    /\ connection => \E i \in 1..Len(conns) : conns[i].prov
    /\ \E b \in 0..Len(nodes) :
          \E j \in (IF b = 0 THEN {0} ELSE 1..Len(nodes[b].inputs)) :
              Become(dragEnd(State, b, j, 0, 0), "dragEnd")

\* the canvas is zoomed before it is panned
ZoomIn == Idle /\ canvas_x = 0 /\ canvas_y = 0 /\ Become(zoom_in(State), "zoom_in")

ZoomOut == Idle /\ canvas_x = 0 /\ canvas_y = 0 /\ Become(zoom_out(State), "zoom_out")

ZoomReset == Idle /\ canvas_x = 0 /\ canvas_y = 0 /\ Become(zoom_reset(State), "zoom_reset")

\* the host sets editor.editor_mode
EditorMode ==
    /\ Idle
    /\ \E mode \in {"edit", "view", "fixed"} :
          Become([State EXCEPT !.editor_mode = mode], "editor_mode")

\* the pointer goes down and up at the points of a small grid, 0..MaxPan
\* along each axis; the canvas is panned at most MaxPan away from its origin
ClickNode ==
    /\ Idle
    /\ \E b \in 1..Len(nodes) : \E x \in 0..MaxPan, y \in 0..MaxPan :
          Become(click(State, [kind |-> "drawflow-node", node |-> nodes[b].id], x, y), "click")

ClickDrawflow ==
    /\ Idle
    /\ \E x \in 0..MaxPan, y \in 0..MaxPan : Become(click(State, [kind |-> "drawflow"], x, y), "click")

\* pointer up after a click on a box or on the background
PointerUp ==
    /\ drag \/ editor_selected
    /\ \E x \in 0..MaxPan, y \in 0..MaxPan :
          /\ editor_selected =>
                 /\ canvas_x + (x - pos_x) \in -MaxPan..MaxPan
                 /\ canvas_y + (y - pos_y) \in -MaxPan..MaxPan
          /\ Become(dragEnd(State, 0, 0, x, y), "dragEnd")

ContextMenu == Idle /\ Become(contextmenu(State), "contextmenu")

\* what the host passes to on and removeListener: two event names and a
\* number, three functions and the undefined value
EventArgs == {Str("nodeCreated"), Str("keydown"), Num(1)}
CallbackArgs == {Fn(1), Fn(2), Fn(3), [t |-> "undefined", v |-> 0]}

On ==
    /\ Idle
    /\ LET RECURSIVE NumListeners(_)
           NumListeners(i) ==
               IF i > Len(listeners) THEN 0
               ELSE Len(listeners[i].v) + NumListeners(i + 1)
       IN  NumListeners(1) < MaxListeners
    /\ \E event \in EventArgs, callback \in CallbackArgs :
          Become(on(State, event, callback), "on")

RemoveListener ==
    /\ Idle
    /\ \E event \in EventArgs, callback \in CallbackArgs :
          /\ event.t = "str" /\ callback.t = "function"
          /\ Become(removeListener(State, event, callback), "removeListener")

Key == Idle /\ \E delete \in BOOLEAN : Become(key(State, delete), "key")

UpdateNodeValue ==
    /\ Idle
    /\ \E b \in 1..Len(nodes), value \in {1, 2} :
          Become(updateNodeValue(State, nodes[b].id, value), "updateNodeValue")

\* the editor after construction and start(), but for its zoom settings
InitEditor ==
    /\ drawflow = <<[k |-> "Home", v |-> EmptyModule]>>
    /\ module = "Home"
    /\ nodeId = 1
    /\ nodes = <<>>
    /\ conns = <<>>
    /\ connection = FALSE
    /\ ele_selected = Null
    /\ connection_selected = Null
    /\ events = <<>>
    /\ thrown = FALSE
    /\ ret = NoRet
    /\ op = "constructor"
    /\ returned = {}
    /\ zoom = One
    /\ zoom_last_value = One
    /\ editor_mode = "edit"
    /\ editor_selected = FALSE
    /\ drag = FALSE
    /\ drag_point = FALSE
    /\ deletebox = Null
    /\ node_selected = Null
    /\ canvas_x = 0
    /\ canvas_y = 0
    /\ pos_x = 0
    /\ pos_y = 0
    /\ pos_x_start = 0
    /\ pos_y_start = 0
    /\ place = [n \in 1..MaxNodeId |-> [left |-> Px(0, 0, One), pos_x |-> Px(0, 0, One)]]
    /\ listeners = <<>>
    /\ invoked = <<>>
    /\ console = 0

Init ==
    /\ InitEditor
    /\ curve = Null
    /\ reroute = FALSE
    /\ reroute_fix_curvature = FALSE
    /\ zoom_max = DefaultZoomMax
    /\ zoom_min = DefaultZoomMin
    /\ zoom_value = DefaultZoomValue

\* zoom_min, zoom_max and zoom_value are public fields a caller sets before
\* start(): 0.5 or 0.75; 1.25, 1.5 or 1.6; 0.1, 0.25 or 0.5
InitZoomConfig ==
    /\ InitEditor
    /\ curve = Null
    /\ reroute = FALSE
    /\ reroute_fix_curvature = FALSE
    /\ zoom_max \in {Dbl(167772160, 0), Dbl(201326592, 0), DefaultZoomMax}
    /\ zoom_min \in {DefaultZoomMin, Dbl(100663296, 0)}
    /\ zoom_value \in {DefaultZoomValue, Dbl(33554432, 0), DefaultZoomMin}

Spec ==
    Init /\ [][
        \/ AddNode
        \/ AddConnection
        \/ RemoveSingleConnection
        \/ RemoveNodeId
        \/ AddNodeInput
        \/ AddNodeOutput
        \/ RemoveNodeInput
        \/ RemoveNodeOutput
        \/ AddModule
        \/ ChangeModule
        \/ RemoveModule
        \/ ImportExport
        \/ RemoveConnection
        \/ ClickOutput
        \/ ClickMainPath
        \/ DragEnd
    ]_vars

\* the store of one module, driven through its API only
SpecStore ==
    Init /\ [][
        \/ AddNode
        \/ AddConnection
        \/ RemoveSingleConnection
        \/ RemoveNodeId
        \/ AddNodeInput
        \/ AddNodeOutput
        \/ RemoveNodeInput
        \/ RemoveNodeOutput
    ]_vars

\* nodes and their ports, with no connection made
SpecPorts ==
    Init /\ [][
        \/ AddNode
        \/ AddNodeInput
        \/ AddNodeOutput
        \/ RemoveNodeInput
        \/ RemoveNodeOutput
    ]_vars

\* nodes and connections spread over two modules
SpecModules ==
    Init /\ [][
        \/ AddNode
        \/ AddConnection
        \/ RemoveNodeId
        \/ AddModule
        \/ ChangeModule
    ]_vars

\* the life of node ids: nodes and modules come and go, the store is reloaded
SpecIds ==
    Init /\ [][
        \/ AddNode
        \/ RemoveNodeId
        \/ AddModule
        \/ ChangeModule
        \/ RemoveModule
        \/ ImportExport
    ]_vars

\* nodes, their ports and their data: the calls that change a node
SpecNodes ==
    Init /\ [][
        \/ AddNode
        \/ RemoveNodeId
        \/ AddNodeInput
        \/ AddNodeOutput
        \/ RemoveNodeInput
        \/ RemoveNodeOutput
        \/ UpdateNodeDataFromId
    ]_vars

\* modules are made, entered, emptied and removed, documents imported
SpecActive ==
    Init /\ [][
        \/ AddNode
        \/ AddModule
        \/ ChangeModule
        \/ RemoveModule
        \/ Clear
        \/ ClearModuleSelected
        \/ Import
    ]_vars

\* a document with connections in two modules, exported and imported
SpecRoundTrip ==
    Init /\ [][
        \/ AddNode
        \/ AddConnection
        \/ AddModule
        \/ ChangeModule
        \/ ImportExport
    ]_vars

\* the canvas is zoomed and panned, modules are entered; the nodes have no
\* ports
SpecPan ==
    Init /\ [][
        \/ Idle /\ nodeId <= MaxNodeId /\ AddNodeCall(0, 0)
        \/ AddModule
        \/ ChangeModule
        \/ ZoomIn
        \/ ZoomOut
        \/ ClickDrawflow
        \/ PointerUp
    ]_vars

\* the host registers and removes listeners; nodes are made and keys
\* pressed
SpecEvents ==
    Init /\ [][
        \/ On
        \/ RemoveListener
        \/ Idle /\ nodeId <= MaxNodeId /\ AddNodeCall(0, 0)
        \/ Key
    ]_vars

\* listeners that call back into the editor: listener 4 on nodeCreated,
\* listener 5 on connectionRemoved; up to three nodes with one input and one
\* output each, connected to one another
SpecReentrant ==
    Init /\ [][
        \/ /\ Idle
           /\ \E k \in {4, 5} :
                 /\ ~OMHas(listeners, IF k = 4 THEN "nodeCreated" ELSE "connectionRemoved")
                 /\ Become(on(State, Str(IF k = 4 THEN "nodeCreated" ELSE "connectionRemoved"),
                              Fn(k)), "on")
        \/ Idle /\ nodeId <= MaxReentrantNodes /\ AddNodeCall(1, 1)
        \/ /\ Idle
           /\ NumConnections < MaxReentrantNodes
           /\ \E o \in 1..MaxReentrantNodes, i \in 1..MaxReentrantNodes :
                 o # i /\ AddConnectionCall(Str(o), Str(i), 1, 1)
        \/ Idle /\ \E n \in 1..MaxReentrantNodes : RemoveNodeIdCall(n)
    ]_vars

\* connections are drawn with the pointer, selected, and deleted by key or by
\* call; up to two nodes with one input and one output each
SpecConnect ==
    Init /\ [][
        \/ Idle /\ nodeId <= MaxNodeId /\ AddNodeCall(1, 1)
        \/ /\ Idle
           /\ NumConnections < MaxConnect
           /\ \E o \in 1..MaxNodeId, i \in 1..MaxNodeId :
                 AddConnectionCall(Str(o), Str(i), 1, 1)
        \/ /\ Idle
           /\ \E o \in 1..MaxNodeId, i \in 1..MaxNodeId :
                 RemoveSingleConnectionCall(Str(o), Str(i), 1, 1)
        \/ /\ Idle
           /\ NumConnections < MaxConnect
           /\ \E b \in 1..Len(nodes) : \E j \in 1..Len(nodes[b].outputs) :
                 Become(click(State, [kind |-> "output", node |-> nodes[b].id, class |-> nodes[b].outputs[j]], 0, 0), "click")
        \/ ClickMainPath
        \/ DragEnd
        \/ Key
    ]_vars

\* the pointer, the keyboard and the form fields, in every mode; the nodes
\* have no ports
SpecModes ==
    Init /\ [][
        \/ Idle /\ nodeId <= MaxNodeId /\ AddNodeCall(0, 0)
        \/ EditorMode
        \/ ClickNode
        \/ ClickDrawflow
        \/ PointerUp
        \/ ContextMenu
        \/ Key
        \/ UpdateNodeValue
    ]_vars

\* the zoom of an editor with the default bounds and step; changeModule
\* resets it
SpecZoom ==
    Init /\ [][
        \/ ZoomIn
        \/ ZoomOut
        \/ ZoomReset
        \/ AddModule
        \/ ChangeModule
    ]_vars

\* the zoom of an editor whose bounds and step the caller has set
SpecZoomConfig ==
    InitZoomConfig /\ [][
        \/ ZoomIn
        \/ ZoomOut
    ]_vars

\* the pointer alone, on an editor of boxes with one input and one output:
\* the browser delivers a pointer down whether or not the last one was
\* released (a second touch, a release outside the window)
SpecGesture ==
    Init /\ [][
        \/ Idle /\ nodeId <= MaxNodeId /\ AddNodeCall(1, 1)
        \/ \E b \in 1..Len(nodes) : \E x \in 0..MaxPan :
               Become(click(State, [kind |-> "drawflow-node", node |-> nodes[b].id], x, 0), "click")
        \/ /\ Len(conns) < MaxConnect
           /\ \E b \in 1..Len(nodes) :
                 Become(click(State, [kind |-> "output", node |-> nodes[b].id,
                                      class |-> nodes[b].outputs[1]], 0, 0), "click")
        \/ \E x \in 0..MaxPan : Become(click(State, [kind |-> "drawflow"], x, 0), "click")
        \/ /\ connection => (conns # <<>> /\ conns[Len(conns)].prov)
           /\ \E b \in 0..Len(nodes), x \in 0..MaxPan :
                 /\ editor_selected => canvas_x + (x - pos_x) \in -MaxPan..MaxPan
                 /\ Become(dragEnd(State, b, IF b = 0 THEN 0 ELSE 1, x, 0), "dragEnd")
    ]_vars

\* modules are made, filled and changed while the host listens to
\* moduleChanged with listener 6
SpecModuleEvents ==
    Init /\ [][
        \/ /\ Idle /\ ~OMHas(listeners, "moduleChanged")
           /\ Become(on(State, Str("moduleChanged"), Fn(6)), "on")
        \/ AddModule
        \/ Idle /\ nodeId <= MaxNodeId /\ AddNodeCall(0, 0)
        \/ ChangeModule
        \/ \E b \in 1..Len(nodes) : Idle /\ RemoveNodeIdCall(nodes[b].id)
    ]_vars

\* pointer downs in edit mode on the boxes, the outputs, the connectors,
\* the background and the delete glyph of an editor of connected boxes; the
\* right click shows the glyph
SpecSelect ==
    Init /\ [][
        \/ Idle /\ nodeId <= MaxNodeId /\ AddNodeCall(1, 1)
        \/ /\ Idle /\ NumConnections < MaxConnect
           /\ \E o \in 1..MaxNodeId, i \in 1..MaxNodeId : AddConnectionCall(Str(o), Str(i), 1, 1)
        \/ \E b \in 1..Len(nodes) :
               Become(click(State, [kind |-> "drawflow-node", node |-> nodes[b].id], 0, 0), "click")
        \/ /\ Len(conns) < MaxConnect
           /\ \E b \in 1..Len(nodes) :
                 Become(click(State, [kind |-> "output", node |-> nodes[b].id,
                                      class |-> nodes[b].outputs[1]], 0, 0), "click")
        \/ \E i \in 1..Len(conns) :
               Become(click(State, [kind |-> "main-path", i |-> i, j |-> 0], 0, 0), "click")
        \/ Become(click(State, [kind |-> "drawflow"], 0, 0), "click")
        \/ Become(contextmenu(State), "contextmenu")
        \/ deletebox # Null /\ Become(click(State, [kind |-> "drawflow-delete"], 0, 0), "click")
        \/ /\ connection => (conns # <<>> /\ conns[Len(conns)].prov)
           /\ \E b \in 0..Len(nodes) :
                 Become(dragEnd(State, b, IF b = 0 THEN 0 ELSE 1, 0, 0), "dragEnd")
    ]_vars

\* the paths createCurvature draws: the ends lie up to MaxCurve pixels from
\* the origin, in either x order; the curvature is 0, 0.5 or 1; the type is
\* one of the four the editor passes
InitCurve ==
    /\ InitEditor
    /\ reroute = FALSE
    /\ reroute_fix_curvature = FALSE
    /\ zoom_max = DefaultZoomMax
    /\ zoom_min = DefaultZoomMin
    /\ zoom_value = DefaultZoomValue
    /\ curve \in [x1 : {2 * n : n \in -MaxCurve..MaxCurve}, y1 : {0, 2},
                  x2 : {2 * n : n \in -MaxCurve..MaxCurve}, y2 : {0, 2},
                  c : 0..2, type : {"open", "close", "other", "openclose"},
                  d : {<<>>}]

SpecCurve ==
    InitCurve /\ [][
        /\ curve.d = <<>>
        /\ Become([State EXCEPT !.curve.d =
                       createCurvature(curve.x1, curve.y1, curve.x2, curve.y2,
                                       curve.c, curve.type)],
                  "createCurvature")
    ]_vars

\* the points on the canvas
NumPoints ==
    LET f[i \in 0..Len(conns)] == IF i = 0 THEN 0 ELSE f[i - 1] + Len(conns[i].pts)
    IN  f[Len(conns)]

\* an editor with reroute on, with or without reroute_fix_curvature: two
\* boxes, their connections, pointer downs on paths and points, double
\* clicks on the selected path and on points
InitReroute ==
    /\ InitEditor
    /\ curve = Null
    /\ reroute = TRUE
    /\ reroute_fix_curvature \in BOOLEAN
    /\ zoom_max = DefaultZoomMax
    /\ zoom_min = DefaultZoomMin
    /\ zoom_value = DefaultZoomValue

SpecReroute ==
    InitReroute /\ [][
        \/ Idle /\ nodeId <= MaxNodeId /\ AddNodeCall(1, 1)
        \/ /\ Idle /\ NumConnections < MaxConnect
           /\ \E o \in 1..MaxNodeId, i \in 1..MaxNodeId :
                 o # i /\ AddConnectionCall(Str(o), Str(i), 1, 1)
        \/ /\ Idle
           /\ \E i \in 1..Len(conns), x \in 0..MaxPan :
                 \E j \in 0..(IF reroute_fix_curvature THEN Len(conns[i].pts) ELSE 0) :
                     Become(click(State, [kind |-> "main-path", i |-> i, j |-> j], x, 0), "click")
        \/ /\ Idle
           /\ \E i \in 1..Len(conns), x \in 0..MaxPan :
                 \E k \in 1..Len(conns[i].pts) :
                     Become(click(State, [kind |-> "point", i |-> i, k |-> k], x, 0), "click")
        \/ drag_point /\ Become(dragEnd(State, 0, 0, pos_x, pos_y), "dragEnd")
        \/ /\ Idle
           /\ \E i \in 1..Len(conns) :
                 /\ conns[i].sel /\ NumPoints < MaxPoints
                 /\ Become(dblclick(State, [kind |-> "main-path", i |-> i, j |-> conns[i].seg]),
                           "dblclick")
        \/ /\ Idle
           /\ connection_selected.kind # "null" => NumPoints < MaxPoints
           /\ \E i \in 1..Len(conns) : \E k \in 1..Len(conns[i].pts) :
                 Become(dblclick(State, [kind |-> "point", i |-> i, k |-> k]), "dblclick")
    ]_vars

\* an editor with reroute on and reroute_fix_curvature off
InitWaypoints ==
    /\ InitEditor
    /\ curve = Null
    /\ reroute = TRUE
    /\ reroute_fix_curvature = FALSE
    /\ zoom_max = DefaultZoomMax
    /\ zoom_min = DefaultZoomMin
    /\ zoom_value = DefaultZoomValue

\* an editor with reroute on: two boxes of MaxPorts inputs and outputs, the
\* connections from the second to the first, reroute points by double clicks
\* on the selected path, and the calls that remove the inputs of the first
\* box and the outputs of the second
SpecWaypoints ==
    InitWaypoints /\ [][
        \/ Idle /\ nodeId <= MaxNodeId /\ AddNodeCall(MaxPorts, MaxPorts)
        \/ /\ Idle /\ NumConnections < MaxConnect
           /\ \E oc \in 1..MaxPorts, ic \in 1..MaxPorts :
                 AddConnectionCall(Str(2), Str(1), oc, ic)
        \/ /\ Idle
           /\ \E i \in 1..Len(conns), x \in 0..MaxPan :
                 Become(click(State, [kind |-> "main-path", i |-> i, j |-> 0], x, 0), "click")
        \/ /\ Idle
           /\ \E i \in 1..Len(conns) :
                 /\ conns[i].sel /\ NumPoints < MaxPorts
                 /\ Become(dblclick(State, [kind |-> "main-path", i |-> i, j |-> conns[i].seg]),
                           "dblclick")
        \/ Idle /\ \E k \in 1..MaxPorts : RemoveNodeInputCall(Str(1), k)
        \/ Idle /\ \E k \in 1..MaxPorts : RemoveNodeOutputCall(Str(2), k)
    ]_vars

\* no gesture has begun
AtRest == Idle /\ ~drag_point

\* an editor with reroute on, at the zoom 1 or one zoom_in above: two boxes,
\* the connection from the second to the first and a reroute point on it;
\* pointer downs on a box, on the background and on the point, each when no
\* gesture has begun, then pointer moves and the pointer up
SpecMove ==
    InitWaypoints /\ [][
        \/ AtRest /\ nodeId <= MaxNodeId /\ AddNodeCall(1, 1)
        \/ AtRest /\ NumConnections < 1 /\ AddConnectionCall(Str(2), Str(1), 1, 1)
        \/ AtRest /\ zoom = One /\ Become(zoom_in(State), "zoom_in")
        \/ /\ AtRest
           /\ \E b \in 1..Len(nodes), x \in 0..MaxPan :
                 Become(click(State, [kind |-> "drawflow-node", node |-> nodes[b].id], x, 0),
                        "click")
        \/ /\ AtRest
           /\ \E x \in 0..MaxPan : Become(click(State, [kind |-> "drawflow"], x, 0), "click")
        \/ /\ AtRest
           /\ \E i \in 1..Len(conns) :
                 Become(click(State, [kind |-> "main-path", i |-> i, j |-> 0], 0, 0), "click")
        \/ /\ AtRest /\ NumPoints < 1
           /\ \E i \in 1..Len(conns) :
                 /\ conns[i].sel
                 /\ Become(dblclick(State, [kind |-> "main-path", i |-> i, j |-> 0]), "dblclick")
        \/ /\ AtRest
           /\ \E i \in 1..Len(conns), x \in 0..MaxPan :
                 \E k \in 1..Len(conns[i].pts) :
                     Become(click(State, [kind |-> "point", i |-> i, k |-> k], x, 0), "click")
        \/ /\ ~AtRest
           /\ \A n \in DOMAIN place : place[n].left.whole = 0
           /\ \E x \in 0..MaxPan : Become(position(State, x, 0), "position")
        \/ /\ ~AtRest
           /\ canvas_x \in (0 - MaxPan)..MaxPan
           /\ \E x \in 0..MaxPan : Become(dragEnd(State, 0, 0, x, 0), "dragEnd")
    ]_vars

\* ------------------------------------------------------------- properties
\* the connection entries of one side of a node table, each with the node
\* and the port that hold it
EntriesOf(d, side) ==
    UNION {UNION {{[owner |-> n, label |-> Ports(d[n], side)[j].k,
                    entry |-> Ports(d[n], side)[j].v.connections[x]] :
                      x \in 1..Len(Ports(d[n], side)[j].v.connections)} :
                  j \in 1..Len(Ports(d[n], side))} :
           n \in DOMAIN d}

\* how many times port label of node n holds the entry e
Count(d, n, side, label, e) ==
    IF n \in DOMAIN d /\ OMHas(Ports(d[n], side), label)
    THEN Cardinality({x \in 1..Len(OMGet(Ports(d[n], side), label).connections) :
                         OMGet(Ports(d[n], side), label).connections[x] = e})
    ELSE 0

Stored(d, n, side, label, e) == Count(d, n, side, label, e) > 0

OutEntry(node, port) == [node |-> node, output |-> port]
InEntry(node, port) == [node |-> node, input |-> port]

\* every output entry has its input entry on the peer, and the other way round
Mirrored(df) ==
    \A i \in 1..Len(df) :
        LET d == df[i].v.data IN
        /\ \A t \in EntriesOf(d, "outputs") :
              Stored(d, t.entry.node, "inputs", t.entry.output, InEntry(t.owner, t.label))
        /\ \A t \in EntriesOf(d, "inputs") :
              Stored(d, t.entry.node, "outputs", t.entry.input, OutEntry(t.owner, t.label))

\* some connection entry of the store names node n as its peer
Names(df, n) ==
    \E i \in 1..Len(df) :
        \E t \in EntriesOf(df[i].v.data, "outputs") \cup EntriesOf(df[i].v.data, "inputs") :
            t.entry.node = n

\* node n is a key of some module
Known(df, n) == \E i \in 1..Len(df) : n \in DOMAIN df[i].v.data

\* C1: in every reachable state, A.outputs[p].connections holds {node: B,
\* output: q} if and only if B.inputs[q].connections holds {node: A, input: p}.
C1_MirrorInvariant == Mirrored(drawflow)

\* both ends are nodes of one module and both ports exist
PortsExist(id_output, id_input, output_class, input_class) ==
    LET m == getModuleFromNodeId(State, id_output) IN
    /\ m # Undefined
    /\ m = getModuleFromNodeId(State, id_input)
    /\ HasPort(State, m, id_output.v, "outputs", output_class)
    /\ HasPort(State, m, id_input.v, "inputs", input_class)

\* no connection entry names the node that holds it
NoSelfEntries(df) ==
    \A i \in 1..Len(df) :
        \A t \in EntriesOf(df[i].v.data, "outputs") \cup EntriesOf(df[i].v.data, "inputs") :
            t.entry.node # t.owner

\* C2: addConnection(A, A, outPort, inPort), for ports A has, fails or is a
\* no-op: it stores no entry and announces no connection.
C2_NoSelfLoops ==
    [][\A a \in IdArgs, oc \in PortArgs, ic \in PortArgs :
          (PortsExist(a, a, oc, ic) /\ AddConnectionCall(a, a, oc, ic))
              => (drawflow' = drawflow /\ events' = <<>>)]_vars

\* a handler called on the state another left: its record of the last call
\* starts empty
Again(s) == [s EXCEPT !.events = <<>>, !.thrown = FALSE, !.ret = NoRet]

\* C3: in every reachable state, for two nodes of one module and ports they
\* have, calling addConnection twice with the same arguments leaves exactly
\* one entry for the connection on the output port and exactly one on the
\* input port, and the second call changes nothing in the store.
C3_IdempotentConnect ==
    \A o \in IdArgs, i \in IdArgs, oc \in PortArgs, ic \in PortArgs :
        (o # i /\ PortsExist(o, i, oc, ic)) =>
            LET m == getModuleFromNodeId(State, o)
                s1 == addConnection(State, o, i, oc, ic)
                s2 == addConnection(Again(s1), o, i, oc, ic)
            IN  /\ Count(Data(s2, m), o.v, "outputs", oc, OutEntry(i.v, ic)) = 1
                /\ Count(Data(s2, m), i.v, "inputs", ic, InEntry(o.v, oc)) = 1
                /\ s2.drawflow = s1.drawflow

\* one of the two ports is missing on a pair of nodes of one module
PortMissing(id_output, id_input, output_class, input_class) ==
    LET m == getModuleFromNodeId(State, id_output) IN
    /\ m # Undefined
    /\ m = getModuleFromNodeId(State, id_input)
    /\ ~(/\ HasPort(State, m, id_output.v, "outputs", output_class)
         /\ HasPort(State, m, id_input.v, "inputs", input_class))

\* C4: addConnection between two nodes, naming an output port the source node
\* lacks or an input port the destination node lacks, leaves the store exactly
\* as it was.
C4_MissingPortRejected ==
    [][\A o \in IdArgs, i \in IdArgs, oc \in PortArgs, ic \in PortArgs :
          (o # i /\ PortMissing(o, i, oc, ic) /\ AddConnectionCall(o, i, oc, ic))
              => drawflow' = drawflow]_vars

\* C7: removeNodeId with an id that is in no module raises no error, leaves
\* the store unchanged and dispatches no nodeRemoved event.
C7_UnknownIdSilent ==
    [][\A n \in 1..MaxNodeId :
          (~Known(drawflow, n) /\ RemoveNodeIdCall(n))
              => /\ ~thrown'
                 /\ drawflow' = drawflow
                 /\ \A e \in 1..Len(events') : events'[e].name # "nodeRemoved"]_vars

\* C5: in every reachable state the peer node of each connection entry, where
\* it lives in the store at all, lives in the module of the node holding the
\* entry.
C5_PeerInSameModule ==
    \A i \in 1..Len(drawflow) :
        \A t \in EntriesOf(drawflow[i].v.data, "outputs")
                    \cup EntriesOf(drawflow[i].v.data, "inputs") :
            Known(drawflow, t.entry.node) => t.entry.node \in DOMAIN drawflow[i].v.data

\* C6: removeNodeId(A), for a node A of any module of a store whose entries
\* are all mirrored, leaves A absent from the store and named by no entry.
C6_RemovalCascades ==
    [][\A n \in 1..MaxNodeId :
          (Known(drawflow, n) /\ Mirrored(drawflow) /\ RemoveNodeIdCall(n))
              => (~Known(drawflow', n) /\ ~Names(drawflow', n))]_vars

\* the entries of port label of node n, <<>> where the port is missing
EntriesAt(d, n, side, label) ==
    IF n \in DOMAIN d /\ OMHas(Ports(d[n], side), label)
    THEN OMGet(Ports(d[n], side), label).connections
    ELSE <<>>

\* the entries other nodes hold for port label of node n on the given side
PeerCount(d, n, side, label) ==
    Cardinality({t \in EntriesOf(d, OtherSide(side)) :
                    t.entry = PeerEntry(n, label, OtherSide(side))})

\* what removing port k of node n on one side does to node table d, giving dp
Renumbered(d, dp, n, side, k) ==
    LET N == Len(Ports(d[n], side))
        Mirror(e, label) ==
            PeerEntry(n, label, OtherSide(side))
    IN
    /\ n \in DOMAIN dp
    /\ OMKeys(Ports(dp[n], side)) = 1..(N - 1)
    \* the connections of port k are gone from both sides
    /\ PeerCount(dp, n, side, k) = PeerCount(d, n, side, k + 1)
    \* a port above k moves one down, and the peers follow
    /\ \A j \in (k + 1)..N :
          /\ EntriesAt(dp, n, side, j - 1) = EntriesAt(d, n, side, j)
          /\ \A x \in 1..Len(EntriesAt(d, n, side, j)) :
                LET e == EntriesAt(d, n, side, j)[x] IN
                Stored(dp, e.node, OtherSide(side), PeerPort(e, side), Mirror(e, j - 1))
    \* a port below k stays as it was, on both sides
    /\ \A j \in 1..(k - 1) :
          /\ EntriesAt(dp, n, side, j) = EntriesAt(d, n, side, j)
          /\ PeerCount(dp, n, side, j) = PeerCount(d, n, side, j)

\* C8: in a store where no node is connected to itself, removeNodeInput
\* (removeNodeOutput) of port k of a node with N ports on that side removes the connections of port k from both sides, moves every
\* connection of a port j > k to port j-1 with its mirror entry renamed, and
\* leaves every connection of a port j < k unchanged on both sides.
C8_PortRenumbering ==
    [][\A n \in 1..MaxNodeId, k \in PortArgs :
          LET m == getModuleFromNodeId(State, Str(n)) IN
          /\ (NoSelfEntries(drawflow) /\ HasPort(State, m, n, "inputs", k)
                /\ RemoveNodeInputCall(Str(n), k))
                => Renumbered(Data(State, m), OMGet(drawflow', m).data, n, "inputs", k)
          /\ (NoSelfEntries(drawflow) /\ HasPort(State, m, n, "outputs", k)
                /\ RemoveNodeOutputCall(Str(n), k))
                => Renumbered(Data(State, m), OMGet(drawflow', m).data, n, "outputs", k)]_vars

\* the keys of an ordered map are 1..N, each once
Dense(ports) ==
    /\ OMKeys(ports) = 1..Len(ports)
    /\ \A i \in 1..Len(ports), j \in 1..Len(ports) : ports[i].k = ports[j].k => i = j

\* C9: the input labels of every node are exactly input_1..input_N and its
\* output labels exactly output_1..output_M, with no gaps and no duplicates.
C9_PortLabelsDense ==
    \A i \in 1..Len(drawflow) :
        \A n \in DOMAIN drawflow[i].v.data :
            /\ Dense(drawflow[i].v.data[n].inputs)
            /\ Dense(drawflow[i].v.data[n].outputs)

\* a port was just removed from a side that still has two ports or more
C9_PortRemoved ==
    /\ op \in {"removeNodeInput", "removeNodeOutput"}
    /\ ~thrown
    /\ \E n \in DOMAIN drawflow[1].v.data :
          IF op = "removeNodeInput" THEN Len(drawflow[1].v.data[n].inputs) >= 2
          ELSE Len(drawflow[1].v.data[n].outputs) >= 2
    /\ Cardinality(DOMAIN drawflow[1].v.data) = 1

\* C10: an id addNode returns was never returned by an earlier addNode.
C10_IdsNeverReused ==
    [][(op' = "addNode" /\ ret'.t = "num") => ret'.v \notin returned]_vars

\* C11: in every reachable state no node id is a key of more than one module,
\* and the id field of every node record equals its key.
C11_IdsUniqueAcrossModules ==
    /\ \A i \in 1..Len(drawflow), j \in 1..Len(drawflow) :
          i # j => (DOMAIN drawflow[i].v.data) \cap (DOMAIN drawflow[j].v.data) = {}
    /\ \A i \in 1..Len(drawflow) :
          \A n \in DOMAIN drawflow[i].v.data : drawflow[i].v.data[n].id = n

\* addNode has just added a node while another module holds nodes too
C11_NodesInTwoModules ==
    /\ op = "addNode" /\ ~thrown
    /\ \E i \in 1..Len(drawflow), j \in 1..Len(drawflow) :
          /\ i # j
          /\ DOMAIN drawflow[i].v.data # {}
          /\ DOMAIN drawflow[j].v.data # {}

FreshPair(n1, n2) ==
    /\ n1 # n2
    /\ HasModule(State, module)
    /\ \A n \in {n1, n2} :
          /\ n \in DOMAIN Data(State, module)
          /\ Data(State, module)[n].inputs = EmptyPorts(1)
          /\ Len(Data(State, module)[n].outputs) = 1
    /\ Data(State, module)[n1].outputs = EmptyPorts(1)

\* C13: addConnection(n1, n2, 'output_1', 'input_1'), called with the values
\* addNode returned for two nodes of one input and one output each, succeeds
\* and stores {node: n2, output: 'input_1'} on output_1 of n1 and
\* {node: n1, input: 'output_1'} on input_1 of n2.
C13_ConnectReturnedIds ==
    \A n1 \in returned, n2 \in returned :
        FreshPair(n1, n2) =>
            LET s1 == addConnection(State, Num(n1), Num(n2), 1, 1)
            IN  /\ ~s1.thrown
                /\ EntriesAt(Data(s1, module), n1, "outputs", 1) = <<OutEntry(n2, 1)>>
                /\ EntriesAt(Data(s1, module), n2, "inputs", 1) = <<InEntry(n1, 1)>>

\* the node tables of the store but for node n of module m
Others(df, m, n) ==
    [i \in 1..Len(df) |->
        [k |-> df[i].k,
         v |-> [data |-> IF df[i].k = m /\ n \in DOMAIN df[i].v.data
                         THEN Del(df[i].v.data, n) ELSE df[i].v.data]]]

\* C14: in every reachable state addNode(a, b) does not fail, stores in the
\* active module a node with inputs input_1..input_a and outputs
\* output_1..output_b, all without connections, returns its id, leaves every
\* other node record as it was, and the next addNode returns that id plus one.
C14_AddNodeNeverFails ==
    \A a \in 0..2, b \in 0..2 :
        LET s1 == addNode(State, a, b)
        IN  /\ ~s1.thrown
            /\ s1.ret.t = "num"
            /\ HasModule(s1, module)
            /\ s1.ret.v \in DOMAIN Data(s1, module)
            /\ Data(s1, module)[s1.ret.v].inputs = EmptyPorts(a)
            /\ Data(s1, module)[s1.ret.v].outputs = EmptyPorts(b)
            /\ Others(s1.drawflow, module, s1.ret.v) = drawflow
            /\ addNode(Again(s1), a, b).ret = NumRet(s1.ret.v + 1)

\* the calls that change the graph store
MutationOps ==
    {"addNode", "removeNodeId", "addConnection", "removeSingleConnection",
     "addNodeInput", "addNodeOutput", "removeNodeInput", "removeNodeOutput",
     "updateNodeDataFromId"}

\* C15: a call that changes the graph store and succeeds dispatches exactly
\* one event; one that fails or changes nothing dispatches none.
C15_OneEventPerMutation ==
    [][op' \in MutationOps =>
          Len(events') = (IF ~thrown' /\ drawflow' # drawflow THEN 1 ELSE 0)]_vars

\* the connections that touch node n: <<node_out, node_in, output, input>>
\* for every entry n holds and every entry that names n
Touching(df, n) ==
    UNION {{<<t.owner, t.entry.node, t.label, t.entry.output>> :
               t \in {x \in EntriesOf(df[i].v.data, "outputs") :
                          x.owner = n \/ x.entry.node = n}}
           \cup {<<t.entry.node, t.owner, t.entry.input, t.label>> :
               t \in {x \in EntriesOf(df[i].v.data, "inputs") :
                          x.owner = n \/ x.entry.node = n}} :
           i \in 1..Len(df)}

\* C16: in every reachable state whose entries are all mirrored and where no
\* node is connected to itself, when
\* removeNodeId(n) dispatches nodeRemoved it does so last, after a
\* connectionRemoved for every connection that touched n, and the store then
\* holds neither n nor an entry naming n.
C16_RemovedAfterConnections ==
    \A n \in 1..MaxNodeId :
        LET s1 == removeNodeId(State, n)
            last == Len(s1.events)
        IN  (/\ Mirrored(drawflow)
             /\ NoSelfEntries(drawflow)
             /\ \E e \in 1..last : s1.events[e].name = "nodeRemoved") =>
                /\ s1.events[last].name = "nodeRemoved"
                /\ \A c \in Touching(drawflow, n) :
                      \E e \in 1..(last - 1) :
                          /\ s1.events[e].name = "connectionRemoved"
                          /\ s1.events[e].args = c
                /\ ~Known(s1.drawflow, n)
                /\ ~Names(s1.drawflow, n)

\* the store but for one entry on each side of the connection
WithoutPair(s, m, o, i, oc, ic) ==
    LET outs == EntriesAt(Data(s, m), o, "outputs", oc)
        ins == EntriesAt(Data(s, m), i, "inputs", ic)
        Cut(t) == SetConnections(t, m, i, "inputs", ic,
                                 Splice1(ins, FindIndex(ins, InEntry(o, oc))))
    IN  Cut(SetConnections(s, m, o, "outputs", oc,
                           Splice1(outs, FindIndex(outs, OutEntry(i, ic))))).drawflow

\* C17: in every reachable state removeSingleConnection(out, in, outPort,
\* inPort) returns true when the connection is stored, and then removes its
\* two entries and nothing else; otherwise it raises nothing, returns false
\* and leaves the store unchanged.
C17_DisconnectReturns ==
    \A o \in IdArgs, i \in IdArgs, oc \in PortArgs, ic \in PortArgs :
        LET s1 == removeSingleConnection(State, o, i, oc, ic)
            m == getModuleFromNodeId(State, o)
            was == /\ m # Undefined
                   /\ Stored(Data(State, m), o.v, "outputs", oc, OutEntry(i.v, ic))
                   /\ Stored(Data(State, m), i.v, "inputs", ic, InEntry(o.v, oc))
        IN  /\ ~s1.thrown
            /\ s1.ret = BoolRet(was)
            /\ s1.drawflow = IF was THEN WithoutPair(State, m, o.v, i.v, oc, ic)
                              ELSE drawflow

\* C20: in every reachable state the active module is a module of the store.
C20_ActiveModuleExists == OMHas(drawflow, module)

\* zoom_min <= z <= zoom_max
InZoomBounds(z) == ~DblLess(zoom_max, z) /\ ~DblLess(z, zoom_min)

\* C18: with the default bounds and step the zoom level stays within
\* [0.5, 1.6] whatever the sequence of zoom_in, zoom_out and zoom_reset.
C18_ZoomInDefaultBounds == InZoomBounds(zoom)

\* C19: for every zoom_min <= 1 <= zoom_max and every positive zoom_value, no
\* zoom_in and no zoom_out leaves the zoom above zoom_max or below zoom_min.
C19_ZoomClamped ==
    [][op' \in {"zoom_in", "zoom_out"} => InZoomBounds(zoom')]_vars

\* C21: addModule with a registered name, and changeModule and removeModule
\* with a name that is not registered, each raise an error, leave the store
\* and the active module unchanged and dispatch no moduleCreated,
\* moduleChanged or moduleRemoved event.
C21_ModuleNameRejected ==
    LET ModuleEvents == {"moduleCreated", "moduleChanged", "moduleRemoved"}
        Rejected(s1) ==
            /\ s1.thrown
            /\ s1.drawflow = drawflow
            /\ s1.module = module
            /\ \A e \in 1..Len(s1.events) : s1.events[e].name \notin ModuleEvents
    IN  \A name \in ModuleNames \cup ObjectPrototype :
            IF HasModule(State, name) THEN Rejected(addModule(State, name))
            ELSE /\ Rejected(changeModule(State, name))
                 /\ Rejected(removeModule(State, name))

\* C22: removeModule(name) of the active module makes 'Home' the active
\* module and then deletes name, dispatching moduleChanged('Home') before
\* moduleRemoved(name); removeModule of another module leaves the active
\* module and the data of every other module unchanged.
C22_RemoveModuleFallsBack ==
    LET Event(e, n) == [name |-> e, args |-> <<n>>]
        Removed(s1, name) ==
            IF module = name
            THEN /\ ~s1.thrown
                 /\ s1.module = "Home"
                 /\ ~HasModule(s1, name)
                 /\ \E i, j \in 1..Len(s1.events) :
                        /\ i < j
                        /\ s1.events[i] = Event("moduleChanged", "Home")
                        /\ s1.events[j] = Event("moduleRemoved", name)
            ELSE /\ ~s1.thrown
                 /\ s1.module = module
                 /\ s1.drawflow = OMDel(drawflow, name)
    IN  \A name \in ModuleNames :
            HasModule(State, name) => Removed(removeModule(State, name), name)

\* C23: changeModule(name) to a module of the store leaves the data of every
\* module as it was, makes name the active module, and sets the zoom to 1 and
\* the pan offset to (0, 0).
C23_ChangeModuleFrame ==
    LET Changed(s1, name) ==
            /\ s1.drawflow = drawflow
            /\ s1.module = name
            /\ s1.zoom = One
            /\ s1.canvas_x = 0 /\ s1.canvas_y = 0
    IN  \A name \in ModuleNames :
            HasModule(State, name) => Changed(changeModule(State, name), name)

\* a canvas zoomed and panned along both axes, showing a module with a node,
\* from which changeModule('Other') leads to the other module
C23_ZoomedAndPanned ==
    /\ zoom # One /\ canvas_x # 0 /\ canvas_y # 0
    /\ module = "Home" /\ HasModule(State, "Home") /\ DOMAIN Data(State, "Home") # {}
    /\ HasModule(State, "Other")
    /\ ~changeModule(State, "Other").thrown
    /\ changeModule(State, "Other").module = "Other"

\* C24: on(event, callback) with a callback that is no function, or an event
\* name that is no string, reports an error and returns false without
\* throwing; the listener table is unchanged, and a dispatch that follows
\* calls the listeners it would have called before.
C24_BadListenerRefused ==
    LET Refused(s1) ==
            /\ ~s1.thrown
            /\ s1.ret = BoolRet(FALSE)
            /\ s1.console > 0
            /\ s1.listeners = listeners
            /\ \A e \in {"nodeCreated", "keydown"} :
                   dispatch(s1, e, <<>>).invoked = dispatch(State, e, <<>>).invoked
    IN  \A event \in EventArgs, callback \in CallbackArgs :
            (callback.t # "function" \/ event.t # "str")
                => Refused(on(State, event, callback))

\* on has refused a registration while the table held listeners
C24_Refused ==
    /\ op = "on" /\ ret = BoolRet(FALSE) /\ console = 1 /\ ~thrown
    /\ listeners # <<>>

\* C25: while editor_mode is 'view' or 'fixed', no pointer down, pointer up,
\* key press, context menu or change of a form field changes the store.
C25_ModeGating ==
    [][(editor_mode \in {"view", "fixed"}
          /\ op' \in {"click", "dragEnd", "key", "contextmenu", "updateNodeValue"})
            => drawflow' = drawflow]_vars

\* the connection <<node_out, node_in, output, input>> has both its entries
HasPair(df, c) ==
    \E i \in 1..Len(df) :
        /\ Stored(df[i].v.data, c[1], "outputs", c[3], OutEntry(c[2], c[4]))
        /\ Stored(df[i].v.data, c[2], "inputs", c[4], InEntry(c[1], c[3]))

\* C26: where a connectionRemoved listener calls removeSingleConnection on
\* the connection from output_1 of node 1 to input_1 of node 2, removeNodeId
\* of node 1 or node 2, on a store whose entries are all mirrored, leaves
\* the entries mirrored and every connection that does not touch the removed
\* node stored.
C26_ReentrantRemoval ==
    LET Kept(s1, n) ==
            /\ Mirrored(s1.drawflow)
            /\ \A k \in 1..MaxReentrantNodes :
                   \A c \in Touching(drawflow, k) :
                       (c[1] # n /\ c[2] # n) => HasPair(s1.drawflow, c)
    IN  \A n \in {1, 2} :
            (/\ OMHas(listeners, "connectionRemoved")
             /\ Mirrored(drawflow)
             /\ HasPair(drawflow, <<1, 2, 1, 1>>))
                => Kept(removeNodeId(State, n), n)

\* C27: where a nodeCreated listener calls addNode itself, the outer and the
\* inner call return different ids, and the store holds a record under each
\* of the two ids when the outer call returns.
C27_ReentrantAddNode ==
    LET Added(s1) ==
            /\ ~s1.thrown
            /\ \E i \in 1..Len(s1.invoked) : s1.invoked[i].ret.t = "num"
            /\ \A i \in 1..Len(s1.invoked) :
                   s1.invoked[i].ret.t = "num" =>
                       /\ s1.invoked[i].ret.v # s1.ret.v
                       /\ {s1.invoked[i].ret.v, s1.ret.v} \subseteq DOMAIN Data(s1, s1.module)
    IN  (OMHas(listeners, "nodeCreated") /\ HasModule(State, module))
            => Added(addNode(State, 1, 1))


\* C28: when a listener removes a listener of the event being dispatched (here
\* itself), every other listener registered for that event when the dispatch
\* began is invoked exactly once, in the order of registration.
C28_RemovalDuringDispatch ==
    LET NotItself(list) == SelectSeq(list, LAMBDA k : k # 3)
        InvokedOf(log) == [i \in 1..Len(log) |-> log[i].listener]
    IN  \A i \in 1..Len(listeners) :
            NotItself(InvokedOf(dispatch(State, listeners[i].k, <<>>).invoked))
                = NotItself(listeners[i].v)

\* C29: removeConnection, with a connector selected, takes from the store the
\* two entries of that connection and no other entry; where the store no
\* longer holds the connection it takes no entry at all.
C29_RemoveSelectedOnly ==
    LET Selected ==
            IF connection_selected.kind = "live"
            THEN conns[CHOOSE j \in 1..Len(conns) : conns[j].sel]
            ELSE connection_selected
        Without(list, e) ==
            IF FindIndex(list, e) = -1 THEN list ELSE Splice1(list, FindIndex(list, e))
        PortsWithout(ports, label, e) ==
            [p \in 1..Len(ports) |->
                IF ports[p].k = label
                THEN [k |-> label, v |-> [connections |-> Without(ports[p].v.connections, e)]]
                ELSE ports[p]]
        Expected(d, c) ==
            [n \in DOMAIN d |->
                [id |-> d[n].id, data |-> d[n].data,
                 outputs |-> IF n = c.node_out
                             THEN PortsWithout(d[n].outputs, c.output_class,
                                               [node |-> c.node_in, output |-> c.input_class])
                             ELSE d[n].outputs,
                 inputs |-> IF n = c.node_in
                            THEN PortsWithout(d[n].inputs, c.input_class,
                                              [node |-> c.node_out, input |-> c.output_class])
                            ELSE d[n].inputs]]
        Removed(s1, c) ==
            /\ ~s1.thrown
            /\ s1.drawflow = SetData(State, module, Expected(Data(State, module), c)).drawflow
    IN  (connection_selected.kind # "null" /\ ~Selected.prov)
            => Removed(removeConnection(State), Selected)

\* C30: a pointer down on an output leaves the store alone, and the pointer
\* up that ends the drawing of a connection commits exactly when it is over an
\* input of another node and the store holds no entry of that connection: then
\* one mirrored pair is appended and connectionCreated dispatched once; in
\* every other case the store is unchanged and connectionCancel is dispatched
\* once, connectionCreated not at all.
C30_CommitOrCancel ==
    LET Dispatched(s1, name) ==
            Cardinality({i \in 1..Len(s1.events) : s1.events[i].name = name})
        Appended(n_out, oc, n_in, ic) ==
            SetConnections(
                SetConnections(State, module, n_out, "outputs", oc,
                    Append(Connections(State, module, n_out, "outputs", oc),
                           OutEntry(n_in, ic))),
                module, n_in, "inputs", ic,
                Append(Connections(State, module, n_in, "inputs", ic),
                       InEntry(n_out, oc))).drawflow
        \* the store holds an entry of the connection, on either side
        Held(n_out, oc, n_in, ic) ==
            \/ Stored(Data(State, module), n_out, "outputs", oc, OutEntry(n_in, ic))
            \/ Stored(Data(State, module), n_in, "inputs", ic, InEntry(n_out, oc))
        Committed(s1, n_out, oc, n_in, ic) ==
            /\ ~s1.thrown
            /\ s1.drawflow = Appended(n_out, oc, n_in, ic)
            /\ Dispatched(s1, "connectionCreated") = 1
            /\ Dispatched(s1, "connectionCancel") = 0
        Cancelled(s1) ==
            /\ ~s1.thrown
            /\ s1.drawflow = drawflow
            /\ Dispatched(s1, "connectionCreated") = 0
            /\ Dispatched(s1, "connectionCancel") = 1
        Released(b, j) ==
            IF /\ b # 0
               /\ nodes[b].id # ele_selected.node
               /\ ~Held(ele_selected.node, ele_selected.class,
                        nodes[b].id, nodes[b].inputs[j])
            THEN Committed(dragEnd(State, b, j, 0, 0), ele_selected.node,
                           ele_selected.class, nodes[b].id, nodes[b].inputs[j])
            ELSE Cancelled(dragEnd(State, b, j, 0, 0))
    IN  /\ Idle =>
              \A b \in 1..Len(nodes) : \A j \in 1..Len(nodes[b].outputs) :
                  click(State, [kind |-> "output", node |-> nodes[b].id, class |-> nodes[b].outputs[j]], 0, 0).drawflow
                      = drawflow
        /\ connection =>
              \A b \in 0..Len(nodes) :
                  \A j \in (IF b = 0 THEN {0} ELSE 1..Len(nodes[b].inputs)) :
                      Released(b, j)

\* C32: at most one of the four gesture flags is set, whatever pointer
\* events came, two pointer downs with no pointer up between them included
C32_OneGesture ==
    Cardinality({f \in {"drag", "editor_selected", "connection", "drag_point"} :
                    State[f]}) <= 1

\* C31: after a pointer up the four gesture flags are off, no element is
\* selected for the gesture and the canvas holds no provisional connector
C31_PointerUpEnds ==
    op = "dragEnd" =>
        /\ ~drag /\ ~drag_point /\ ~connection /\ ~editor_selected
        /\ ele_selected = Null
        /\ \A i \in 1..Len(conns) : ~conns[i].prov

\* C39: the selected node, if there is one, is a node of the active module
\* of the store
C39_SelectionExists ==
    node_selected.kind # "null" =>
        /\ HasModule(State, module)
        /\ node_selected.node \in DOMAIN Data(State, module)

\* C33: a listener of moduleChanged that changeModule(name) calls finds name
\* the active module and the boxes of the nodes of that module on the canvas
C33_ModuleChangedOrder ==
    (op = "changeModule" /\ ~thrown) =>
        \A i \in 1..Len(invoked) :
            invoked[i].listener = 6 =>
                /\ invoked[i].ret.v.module = module
                /\ invoked[i].ret.v.boxes = DOMAIN Data(State, module)

\* the nodeSelected and nodeUnselected events of a handler, in order
SelectionEvents(evs) ==
    SelectSeq(evs, LAMBDA e : e.name \in {"nodeSelected", "nodeUnselected"})

\* C34: nodeSelected and nodeUnselected alternate, nodeSelected first.  A
\* node is selected exactly when the last of the two events was nodeSelected:
\* the events of each handler alternate, they begin with nodeSelected when no
\* node is selected and with nodeUnselected when one is, and the handler
\* leaves a node selected exactly when nodeSelected was the last of them.
C34_SelectionAlternates ==
    [][LET evs == SelectionEvents(events')
           was == node_selected.kind # "null"
       IN  /\ \A i \in 1..(Len(evs) - 1) : evs[i].name # evs[i + 1].name
           /\ evs # <<>> =>
                  evs[1].name = (IF was THEN "nodeUnselected" ELSE "nodeSelected")
           /\ (node_selected'.kind # "null") =
                  (IF evs = <<>> THEN was ELSE evs[Len(evs)].name = "nodeSelected")]_vars

\* a pointer down on a box while another box is selected
C34_Reselected ==
    /\ op = "click"
    /\ Len(SelectionEvents(events)) = 2
    /\ SelectionEvents(events)[1].name = "nodeUnselected"
    /\ SelectionEvents(events)[2].name = "nodeSelected"

\* C40: the path runs from (x1, y1) to (x2, y2) with the control points
\* (hx1, y1) and (hx2, y2).  With c the curvature and w = c * |x2 - x1|: the
\* default type gives hx1 = x1 + w and hx2 = x2 - w in every x order; so do
\* 'open', 'close' and 'other' when x1 < x2; when x1 >= x2 'open' gives
\* hx2 = x2 + w, 'close' gives hx1 = x1 - w and 'other' gives both.
C40_ControlPoints ==
    curve.d # <<>> =>
        LET w == (Abs(curve.x2 - curve.x1) * curve.c) \div 2
            back == curve.x1 >= curve.x2
            hx1 == IF back /\ curve.type \in {"close", "other"}
                   THEN curve.x1 - w ELSE curve.x1 + w
            hx2 == IF back /\ curve.type \in {"open", "other"}
                   THEN curve.x2 + w ELSE curve.x2 - w
        IN  curve.d = <<curve.x1, curve.y1, hx1, curve.y1, hx2, curve.y2, curve.x2, curve.y2>>

\* a path drawn from right to left with type 'open' and a curvature that
\* moves the control points
C40_OpenBackwards ==
    /\ curve.d # <<>>
    /\ curve.type = "open" /\ curve.x1 > curve.x2 /\ curve.c = 1
    /\ curve.d[3] > curve.x1 /\ curve.d[5] > curve.x2

\* C38: after an operation that completed, outside a connection gesture, the
\* boxes of the canvas are the nodes of the active module, every connection
\* the active module holds on both sides has its element, and every element
\* is a connection the active module holds on some side.  A connection is
\* <<output node, output port, input node, input port>>.
C38_ViewIsModel ==
    (~thrown /\ ~connection /\ HasModule(State, module)) =>
        LET d == Data(State, module)
            outs == {<<t.owner, t.label, t.entry.node, t.entry.output>> :
                        t \in EntriesOf(d, "outputs")}
            ins == {<<t.entry.node, t.entry.input, t.owner, t.label>> :
                       t \in EntriesOf(d, "inputs")}
            drawn == {<<conns[i].node_out, conns[i].output_class,
                        conns[i].node_in, conns[i].input_class>> :
                         i \in {j \in 1..Len(conns) : ~conns[j].prov}}
        IN  /\ {nodes[b].id : b \in 1..Len(nodes)} = DOMAIN d
            /\ (outs \cap ins) \subseteq drawn
            /\ drawn \subseteq (outs \cup ins)

\* the stored waypoints of the connection of element c, <<>> where the store
\* has no entry of it
Waypoints(s, c) ==
    IF ~HasPort(s, s.module, c.node_out, "outputs", c.output_class) THEN <<>>
    ELSE LET outs == Connections(s, s.module, c.node_out, "outputs", c.output_class)
             at == FindEntry(outs, [node |-> c.node_in, output |-> c.input_class])
         IN  IF at = -1 THEN <<>> ELSE PointsOf(outs[at + 1])

\* C36: the rendered points of every connection element are its stored
\* waypoints, in order; a double click on the k-th point of an element
\* leaves the waypoints without the k-th, the others in order; a double
\* click on the selected path of an element adds the point of the pointer,
\* at the place of the path with reroute_fix_curvature and at the end
\* without.
C36_RerouteIndexing ==
    /\ \A i \in 1..Len(conns) : ~conns[i].prov => conns[i].pts = Waypoints(State, conns[i])
    /\ \A i \in 1..Len(conns) : \A k \in 1..Len(conns[i].pts) :
           LET s1 == dblclick(State, [kind |-> "point", i |-> i, k |-> k])
           IN  ~s1.thrown =>
                   Waypoints(s1, conns[i]) = Splice1(Waypoints(State, conns[i]), k - 1)
    /\ \A i \in 1..Len(conns) :
           (conns[i].sel /\ ~conns[i].prov) =>
               LET s1 == dblclick(State, [kind |-> "main-path", i |-> i, j |-> conns[i].seg])
                   point == [pos_x |-> pos_x - canvas_x, pos_y |-> pos_y - canvas_y]
               IN  ~s1.thrown =>
                       Waypoints(s1, conns[i]) =
                           IF reroute_fix_curvature
                           THEN InsertAt(Waypoints(State, conns[i]), conns[i].seg, point)
                           ELSE Append(Waypoints(State, conns[i]), point)

\* the connections of the store of the module on the canvas, each by its two
\* boxes and its two ports: the entries of the outputs that have their entry
\* on the input they name
StoredConnections(s) ==
    IF ~HasModule(s, s.module) THEN {}
    ELSE {[node_out |-> t.owner, output_class |-> t.label,
           node_in |-> t.entry.node, input_class |-> t.entry.output] :
              t \in {u \in EntriesOf(Data(s, s.module), "outputs") :
                        [owner |-> u.entry.node, label |-> u.entry.output,
                         entry |-> [node |-> u.owner, input |-> u.label]]
                            \in EntriesOf(Data(s, s.module), "inputs")}}

\* the connection c under the port labels it has once port label of box n
\* is removed; no port is removed where label = 0
Relabelled(c, side, n, label) ==
    IF label = 0 THEN c
    ELSE IF side = "inputs"
    THEN IF c.node_in = n /\ c.input_class > label
         THEN [c EXCEPT !.input_class = @ - 1] ELSE c
    ELSE IF c.node_out = n /\ c.output_class > label
         THEN [c EXCEPT !.output_class = @ - 1] ELSE c

\* unless the call threw, every connection of the store but those of the
\* removed port is in the store of s1, under its label after the removal of
\* port label of box n, with the
\* waypoints it has now
KeepsWaypoints(s1, side, n, label) ==
    LET before == StoredConnections(State)
        after == StoredConnections(s1)
    IN  ~s1.thrown =>
            \A c \in before :
                (label # 0 /\ (IF side = "inputs" THEN c.node_in = n /\ c.input_class = label
                               ELSE c.node_out = n /\ c.output_class = label))
                \/ (/\ Relabelled(c, side, n, label) \in after
                    /\ Waypoints(s1, Relabelled(c, side, n, label)) = Waypoints(State, c))

\* unless the call threw, every connection of the store but c0 is in the
\* store of s1 with the waypoints it has now
KeepsOthers(s1, c0) ==
    LET before == StoredConnections(State)
        after == StoredConnections(s1)
    IN  ~s1.thrown =>
            \A c \in before \ {c0} : c \in after /\ Waypoints(s1, c) = Waypoints(State, c)

\* C37: removeNodeInput and removeNodeOutput leave every connection of the
\* other ports in the store with the waypoints it had, in their order, under
\* its renumbered label where the port was above the removed one;
\* addNodeInput, addNodeOutput, addConnection and the removeSingleConnection
\* of another connection leave the waypoints of every connection as they were.
C37_WaypointsFramed ==
    StoredConnections(State) # {} =>
        /\ \A n \in 1..MaxNodeId, k \in 1..MaxPorts :
              /\ KeepsWaypoints(removeNodeInput(State, Str(n), k), "inputs", n, k)
              /\ KeepsWaypoints(removeNodeOutput(State, Str(n), k), "outputs", n, k)
        /\ \A n \in 1..MaxNodeId :
              /\ KeepsWaypoints(addNodeInput(State, Str(n)), "inputs", n, 0)
              /\ KeepsWaypoints(addNodeOutput(State, Str(n)), "outputs", n, 0)
        /\ \A o \in 1..MaxNodeId, i \in 1..MaxNodeId, oc \in 1..MaxPorts, ic \in 1..MaxPorts :
              o # i =>
                  /\ KeepsWaypoints(addConnection(State, Str(o), Str(i), oc, ic), "inputs", i, 0)
                  /\ KeepsOthers(removeSingleConnection(State, Str(o), Str(i), oc, ic),
                                 [node_out |-> o, output_class |-> oc,
                                  node_in |-> i, input_class |-> ic])

\* removeNodeInput has removed input_1 of a box with the connection into it,
\* and a connection with waypoints that led into input_2 now leads into input_1
C37_RenumberedWithPoints ==
    /\ op = "removeNodeInput" /\ ~thrown
    /\ \E c \in StoredConnections(State) :
          /\ c.input_class = 1
          /\ Len(Waypoints(State, c)) >= 2
          /\ Waypoints(State, c)[1] # Waypoints(State, c)[2]
          /\ \E e \in 1..Len(events) :
                /\ events[e].name = "connectionRemoved"
                /\ events[e].args[2] = c.node_in
                /\ events[e].args[4] = 1

\* what a pointer move can change: the store, the places of the boxes, the
\* pan offset, the pointer, the flags of the gesture and the rendered points
Moving(s) ==
    [drawflow |-> s.drawflow, place |-> s.place, canvas_x |-> s.canvas_x,
     canvas_y |-> s.canvas_y, pos_x |-> s.pos_x, pos_y |-> s.pos_y,
     drag |-> s.drag, drag_point |-> s.drag_point,
     editor_selected |-> s.editor_selected, connection |-> s.connection,
     ele_selected |-> s.ele_selected, conns |-> s.conns]

\* the state a handler finds after the handler that left s
After(s) == [s EXCEPT !.events = <<>>, !.thrown = FALSE, !.ret = NoRet, !.invoked = <<>>]

\* C35: while a box, the canvas or a reroute point is dragged, a second
\* pointer move to the same coordinates leaves the store, the places, the pan
\* offset and the gesture as the first left them.
C35_MoveIdempotent ==
    (drag \/ editor_selected \/ drag_point) =>
        \A x \in 0..MaxPan :
            Moving(position(After(position(State, x, 0)), x, 0))
                = Moving(position(State, x, 0))
====
